---- MODULE Spec2Model ----
(***************************************************************************)
(* Model of the WebAuthn ceremony client of insect_app_front:              *)
(*   - the base64url codec (bufferToBase64URL / base64URLToBuffer),        *)
(*   - the begin/finish network calls with their abort timers,             *)
(*   - the two ceremonies registerWebAuthnCredential / authenticateWebAuthn*)
(*   - the last-used e-mail kept in localStorage,                          *)
(*   - the decoding of the challenge options,                              *)
(*   - the web hook useBiometrics that runs the ceremonies for the UI.     *)
(* Source: src/utils/webauthn-api.ts (the file holds both webauthn-api.ts  *)
(* and webauthn.ts) and src/unnamed/part_001 (the hook).                   *)
(***************************************************************************)
EXTENDS Integers, Sequences, FiniteSets, TLC

(***************************************************************************)
(* Bounds of the model.                                                    *)
(***************************************************************************)
\* longest byte buffer given to the codec
MaxBufLen == 4
\* longest text given to base64URLToBuffer directly
MaxTextLen == 4
\* longest exclusion list / allow-list of a challenge-options payload
MaxCreds == 2

(***************************************************************************)
(* JavaScript values.                                                      *)
(***************************************************************************)
Undefined == "undefined"
Null == "null"

\* JavaScript truthiness of a string-or-undefined value (x || y, !x)
Truthy(v) == v \notin {Undefined, Null, ""}

\* JavaScript a || b
Or(a, b) == IF Truthy(a) THEN a ELSE b

(***************************************************************************)
(* Codec.  A binary buffer is a sequence of bytes, a text is a sequence of *)
(* one-character strings.                                                  *)
(***************************************************************************)
\* bytes the buffers are built from: they produce every padding length,
\* the sextets 62 and 63 ('+', '/') in every position, and 0
ByteSample == {0, 3, 62, 191, 239, 251, 255}

Buffers == UNION {[1..n -> ByteSample] : n \in 0..MaxBufLen}

\* characters the padding-free URL-safe texts are built from: sextets 0, 1,
\* 4, 16, 62 ('-') and 63 ('_'), so that the bits atob discards at the end
\* of a text are zero for some texts and non-zero for others
CharSample == {"A", "B", "E", "Q", "-", "_"}

Texts == UNION {[1..n -> CharSample] : n \in 0..MaxTextLen}

\* the base64 alphabet of btoa/atob, index = sextet + 1
Base64Alphabet ==
    << "A","B","C","D","E","F","G","H","I","J","K","L","M","N","O","P",
       "Q","R","S","T","U","V","W","X","Y","Z","a","b","c","d","e","f",
       "g","h","i","j","k","l","m","n","o","p","q","r","s","t","u","v",
       "w","x","y","z","0","1","2","3","4","5","6","7","8","9","+","/" >>

Base64Char(sextet) == Base64Alphabet[sextet + 1]

Base64Index(ch) == (CHOOSE i \in 1..64 : Base64Alphabet[i] = ch) - 1

IsBase64Char(ch) == \E i \in 1..64 : Base64Alphabet[i] = ch

\* String.prototype.replace(/x/g, y) on a text
ReplaceAll(text, from, to) ==
    [i \in 1..Len(text) |-> IF text[i] = from THEN to ELSE text[i]]

\* String.prototype.replace(/x/g, '') on a text
RECURSIVE RemoveAll(_, _)
RemoveAll(text, ch) ==
    IF text = << >> THEN << >>
    ELSE IF Head(text) = ch THEN RemoveAll(Tail(text), ch)
         ELSE << Head(text) >> \o RemoveAll(Tail(text), ch)

\* String.prototype.padEnd(targetLength, ch)
RECURSIVE padEnd(_, _, _)
padEnd(text, targetLength, ch) ==
    IF Len(text) >= targetLength THEN text
    ELSE padEnd(Append(text, ch), targetLength, ch)

\* the loop of bufferToBase64URL: one character per byte, char code = byte
BinaryString(bytes) == [i \in 1..Len(bytes) |-> bytes[i]]

\* window.btoa on a binary string (sequence of char codes 0..255)
RECURSIVE btoa(_)
btoa(binary) ==
    IF Len(binary) = 0 THEN << >>
    ELSE IF Len(binary) = 1 THEN
        << Base64Char(binary[1] \div 4),
           Base64Char((binary[1] % 4) * 16), "=", "=" >>
    ELSE IF Len(binary) = 2 THEN
        << Base64Char(binary[1] \div 4),
           Base64Char((binary[1] % 4) * 16 + binary[2] \div 16),
           Base64Char((binary[2] % 16) * 4), "=" >>
    ELSE
        << Base64Char(binary[1] \div 4),
           Base64Char((binary[1] % 4) * 16 + binary[2] \div 16),
           Base64Char((binary[2] % 16) * 4 + binary[3] \div 64),
           Base64Char(binary[3] % 64) >>
        \o btoa(SubSeq(binary, 4, Len(binary)))

\* the outcome of a decoding step: the bytes, or the exception thrown
Decoded(bytes) == [threw |-> FALSE, bytes |-> bytes]

\* what atob throws on input that is not base64 (a DOMException)
InvalidCharacterError == [threw |-> TRUE, bytes |-> << >>]

\* the padding step of atob (forgiving-base64 decode): a text whose length
\* is a multiple of 4 loses one or two trailing '='
AtobStripPadding(text) ==
    IF Len(text) % 4 = 0 /\ Len(text) >= 1 /\ text[Len(text)] = "="
    THEN IF Len(text) >= 2 /\ text[Len(text) - 1] = "="
         THEN SubSeq(text, 1, Len(text) - 2)
         ELSE SubSeq(text, 1, Len(text) - 1)
    ELSE text

\* the bytes of a padding-free base64 text; trailing bits are discarded
RECURSIVE AtobBytes(_)
AtobBytes(data) ==
    IF Len(data) <= 1 THEN << >>
    ELSE LET s1 == Base64Index(data[1])
             s2 == Base64Index(data[2])
         IN IF Len(data) = 2 THEN << s1 * 4 + s2 \div 16 >>
            ELSE LET s3 == Base64Index(data[3])
                 IN IF Len(data) = 3
                    THEN << s1 * 4 + s2 \div 16, (s2 % 16) * 16 + s3 \div 4 >>
                    ELSE << s1 * 4 + s2 \div 16,
                            (s2 % 16) * 16 + s3 \div 4,
                            (s3 % 4) * 64 + Base64Index(data[4]) >>
                         \o AtobBytes(SubSeq(data, 5, Len(data)))

\* window.atob: the binary string, or InvalidCharacterError
atob(text) ==
    LET data == AtobStripPadding(text)
    IN IF Len(data) % 4 = 1 \/ \E i \in 1..Len(data) : ~IsBase64Char(data[i])
       THEN InvalidCharacterError
       ELSE Decoded(AtobBytes(data))

\* mutant: '+' is not replaced by '-'
bufferToBase64URL_keepPlus(buffer) ==
    RemoveAll(ReplaceAll(btoa(BinaryString(buffer)), "/", "_"), "=")

\* mutant: the padding characters are left in the encoded text
bufferToBase64URL_keepPadding(buffer) ==
    ReplaceAll(ReplaceAll(btoa(BinaryString(buffer)), "+", "-"), "/", "_")

\* bufferToBase64URL: btoa, '+' -> '-', '/' -> '_', '=' removed
bufferToBase64URL(buffer) ==
    RemoveAll(
        ReplaceAll(ReplaceAll(btoa(BinaryString(buffer)), "+", "-"), "/", "_"),
        "=")

\* mutant: only '-' is mapped back, '_' reaches atob
base64URLToBuffer_noSlash(base64url) ==
    LET base64 == ReplaceAll(base64url, "-", "+")
        paddedBase64 ==
            padEnd(base64, Len(base64) + ((4 - (Len(base64) % 4)) % 4), "=")
    IN atob(paddedBase64)

\* base64URLToBuffer: '-' -> '+', '_' -> '/', padded to a multiple of 4,
\* atob, one byte per character; an atob failure is thrown
base64URLToBuffer(base64url) ==
    LET base64 == ReplaceAll(ReplaceAll(base64url, "-", "+"), "_", "/")
        paddedBase64 ==
            padEnd(base64, Len(base64) + ((4 - (Len(base64) % 4)) % 4), "=")
        binary == atob(paddedBase64)
    IN IF binary.threw THEN InvalidCharacterError
       ELSE Decoded([i \in 1..Len(binary.bytes) |-> binary.bytes[i]])

(***************************************************************************)
(* Ceremony client: data.                                                  *)
(* The user-facing messages of the source are Japanese; the model uses     *)
(* ASCII renderings, one per source string.                                *)
(***************************************************************************)
\* the ceremony invocations: two, so that every interleaving of a pair of
\* ceremonies (same or different kind, same or different e-mail) occurs
Cer == {1, 2}
Kinds == {"register", "login"}
Emails == {"a@example.com", "b@example.com"}
Usernames == {"alice"}

\* the request budget of every begin/finish call, in milliseconds
REQUEST_TIMEOUT == 60000

\* error: 'WebAuthn is not supported by this browser'
MsgUnsupported == "WebAuthn is not supported by this browser"
\* the body of a non-2xx response could not be parsed: { error: 'network error' }
MsgNetworkError == "network error"
\* generic fallback of beginRegistration / beginLogin
BeginFallback(k) ==
    IF k = "register" THEN "failed to begin registration"
    ELSE "failed to begin authentication"
\* generic fallback of finishRegistration / finishLogin
FinishFallback(k) ==
    IF k = "register" THEN "failed to finish registration"
    ELSE "failed to finish authentication"
\* the platform call returned no credential
MsgNoCredential(k) ==
    IF k = "register" THEN "failed to create the credential"
    ELSE "authentication failed"
\* the ceremony caught a value that is no Error
CeremonyFallback(k) ==
    IF k = "register" THEN "an error occurred during registration"
    ELSE "an error occurred during authentication"

BeginEndpoint(k) ==
    IF k = "register" THEN "/api/v1/auth/register/begin"
    ELSE "/api/v1/auth/login/begin"
FinishEndpoint(k) ==
    IF k = "register" THEN "/api/v1/auth/register/finish"
    ELSE "/api/v1/auth/login/finish"

\* thrown values: an Error (with name and message) or any other value
Err(name, message) == [isError |-> TRUE, name |-> name, message |-> message]
NonError == [isError |-> FALSE, name |-> "", message |-> Undefined]
NoErr == [isError |-> FALSE, name |-> "none", message |-> Undefined]
\* new Error(message)
NewError(message) == Err("Error", message)
\* fetch / body read rejected because controller.abort() ran
AbortError == Err("AbortError", "The operation was aborted.")
\* fetch rejected: the network failed
NetworkFailure == Err("TypeError", "Failed to fetch")
\* response.json() rejected: the body is no JSON
JsonSyntaxError == Err("SyntaxError", "Unexpected token in JSON")
\* decodeCreationOptions / decodeRequestOptions read a field of undefined
DecodeTypeError == Err("TypeError", "Cannot read properties of undefined")
\* navigator.credentials.create / get rejected
PlatformErrors ==
    { Err("NotAllowedError", "The operation was cancelled by the user"),
      Err("NotAllowedError", "The operation either timed out or was not allowed"),
      Err("NotAllowedError", "The operation timeout expired"),
      AbortError }

\* String.prototype.includes for the messages of the model and the
\* substrings the hook looks for
Includes(message, sub) ==
    << message, sub >> \in
        { << "The operation was cancelled by the user", "cancelled" >>,
          << "The operation timeout expired", "timeout" >>,
          << "The operation was aborted.", "abort" >> }

\* what a fetch can reject with when it is not aborted
FetchRejections == {NetworkFailure, NonError}

\* values of the envelope's error and message fields
ErrorVals == {Undefined, "", "server error text"}
MessageVals == {Undefined, "server message text"}
TokenVals == {Undefined, "token-1"}
UserVals == {Undefined, "user-1"}

\* outcome of response.json(): the parsed envelope
\* {success, data?, error?, message?}, or a rejection.
\* data: "none" (absent), "ok", "malformed" (data without usable publicKey)
Envelope(success, data, error, message, token, user) ==
    [parsed |-> TRUE, rejection |-> NoErr, success |-> success, data |-> data,
     error |-> error, message |-> message, token |-> token, user |-> user]
Unparsed(err) ==
    [parsed |-> FALSE, rejection |-> err, success |-> FALSE, data |-> "none",
     error |-> Undefined, message |-> Undefined,
     token |-> Undefined, user |-> Undefined]

\* no body read yet
NoBody == Unparsed(NoErr)

\* the envelopes a begin response can carry: accepted ones (with usable or
\* malformed data), refused ones with every choice of error and message
\* (with or without data), and a body that is no JSON
BeginBodies ==
    { Envelope(TRUE, d, Undefined, Undefined, Undefined, Undefined) :
        d \in {"ok", "malformed"} }
    \cup { Envelope(s, "none", e, m, Undefined, Undefined) :
             s \in BOOLEAN, e \in ErrorVals, m \in MessageVals }
    \cup { Envelope(FALSE, "ok", e, m, Undefined, Undefined) :
             e \in ErrorVals, m \in MessageVals }
    \cup {Unparsed(JsonSyntaxError)}

\* the envelopes a finish response can carry
FinishBodies ==
    { Envelope(TRUE, "ok", Undefined, Undefined, t, u) :
        t \in TokenVals, u \in UserVals }
    \cup { Envelope(s, "none", e, m, Undefined, Undefined) :
             s \in BOOLEAN, e \in ErrorVals, m \in MessageVals }
    \cup {Unparsed(JsonSyntaxError)}

\* credentials the platform can return (id, raw id bytes, optional user handle)
\* the credential of a platform ceremony: hasUserHandle is FALSE when
\* response.userHandle is null (always so for an attestation); an empty
\* ArrayBuffer is a user handle too
NoCredential ==
    [id |-> "", rawId |-> << >>, clientDataJSON |-> << >>,
     hasUserHandle |-> FALSE, userHandle |-> << >>]

Credentials ==
    { [id |-> "cred-1", rawId |-> << 251, 255 >>, clientDataJSON |-> << 62 >>,
       hasUserHandle |-> FALSE, userHandle |-> << >>],
      [id |-> "cred-2", rawId |-> << 3 >>, clientDataJSON |-> << 62 >>,
       hasUserHandle |-> TRUE, userHandle |-> << 239, 191 >>],
      [id |-> "cred-3", rawId |-> << 0 >>, clientDataJSON |-> << 62 >>,
       hasUserHandle |-> TRUE, userHandle |-> << >>] }

\* no sessionId in a request body / none received
NoSession == 0

\* the return value of a ceremony; threw: the promise was rejected instead
NoResult ==
    [returned |-> FALSE, threw |-> FALSE, success |-> FALSE,
     token |-> Undefined, user |-> Undefined, error |-> Undefined]
Failure(error) ==
    [returned |-> TRUE, threw |-> FALSE, success |-> FALSE,
     token |-> Undefined, user |-> Undefined, error |-> error]
Success(token, user) ==
    [returned |-> TRUE, threw |-> FALSE, success |-> TRUE,
     token |-> token, user |-> user, error |-> Undefined]
Rejected(err) ==
    [returned |-> TRUE, threw |-> TRUE, success |-> FALSE,
     token |-> Undefined, user |-> Undefined, error |-> err.message]

\* one begin/finish call: its abort timer (state and delay in ms) and its
\* signal
NoCall == [timer |-> "unset", delay |-> 0, aborted |-> FALSE]
NoCalls == [begin |-> NoCall, finish |-> NoCall]

\* the response of one begin/finish call: whether fetch resolved, its
\* response.ok, and what response.json() settled with
NoResp == [arrived |-> FALSE, ok |-> FALSE, body |-> NoBody]
NoResps == [begin |-> NoResp, finish |-> NoResp]

(***************************************************************************)
(* Challenge options.  A JavaScript object is a function from its own keys *)
(* to their values; a key whose value is undefined is in the domain.       *)
(***************************************************************************)
\* what atob's exception is once it leaves base64URLToBuffer
AtobError ==
    Err("InvalidCharacterError",
        "The string to be decoded is not correctly encoded.")

\* the outcome of decodeCreationOptions / decodeRequestOptions
OptionsThrew(err) == [threw |-> TRUE, error |-> err, value |-> << >>]
OptionsValue(object) == [threw |-> FALSE, error |-> NoErr, value |-> object]
NoOptions == OptionsValue(<< >>)

\* { ...object, key: value, ... }: the overrides win, other keys are kept
Spread(object, overrides) == overrides @@ object

\* texts of the binary fields of a payload; the last one is not base64
IdTexts == { << "A", "Q" >>, << "-", "_", "E" >> }
ChallengeTexts == { << "A", "A" >>, << "_", "w" >>, << "A" >> }

\* entries of excludeCredentials / allowCredentials
CredEntries ==
    { [type |-> "public-key", id |-> t] : t \in IdTexts }
    \cup { [type |-> "public-key", id |-> t, transports |-> "internal"] :
             t \in IdTexts }

CredLists == UNION {[1..n -> CredEntries] : n \in 0..MaxCreds}

\* options.user of a registration payload
Users ==
    { [id |-> t, name |-> "alice"] : t \in IdTexts }
    \cup { [id |-> t, name |-> "alice", displayName |-> "Alice"] :
             t \in IdTexts }

\* payloads with and without the optional keys timeout and the list
WithOptionalKeys(base, listKey) ==
    { Spread(b, ("timeout" :> 60000)) : b \in base } \cup base
    \cup { Spread(b, (listKey :> l)) : b \in base, l \in CredLists }

\* data.data.publicKey of a begin-registration response; the payloads
\* without user are malformed
RawCreationOptions ==
    WithOptionalKeys(
        { [challenge |-> ch, rp |-> "insect", user |-> u] :
            ch \in ChallengeTexts, u \in Users }
        \cup { [challenge |-> ch, rp |-> "insect"] : ch \in ChallengeTexts },
        "excludeCredentials")

\* data.data.publicKey of a begin-login response
RawRequestOptions ==
    WithOptionalKeys(
        { [challenge |-> ch, rpId |-> "insect"] : ch \in ChallengeTexts },
        "allowCredentials")

\* list?.map(cred => ({ ...cred, id: base64URLToBuffer(cred.id) })):
\* undefined when the key is absent
DecodeCreds(object, listKey) ==
    IF listKey \in DOMAIN object
    THEN [i \in 1..Len(object[listKey]) |->
             Spread(object[listKey][i],
                    ("id" :> base64URLToBuffer(object[listKey][i].id).bytes))]
    ELSE Undefined

\* some id of the list is rejected by atob
CredsThrow(object, listKey) ==
    /\ listKey \in DOMAIN object
    /\ \E i \in 1..Len(object[listKey]) :
           base64URLToBuffer(object[listKey][i].id).threw

\* decodeCreationOptions: the properties are evaluated in source order, so
\* the first failing conversion is the one thrown
decodeCreationOptions(options) ==
    IF base64URLToBuffer(options.challenge).threw THEN OptionsThrew(AtobError)
    ELSE IF "user" \notin DOMAIN options THEN OptionsThrew(DecodeTypeError)
    ELSE IF base64URLToBuffer(options.user.id).threw
    THEN OptionsThrew(AtobError)
    ELSE IF CredsThrow(options, "excludeCredentials")
    THEN OptionsThrew(AtobError)
    ELSE OptionsValue(
            Spread(options,
                ("challenge" :> base64URLToBuffer(options.challenge).bytes)
                @@ ("user" :>
                        Spread(options.user,
                            ("id" :> base64URLToBuffer(options.user.id).bytes)))
                @@ ("excludeCredentials" :>
                        DecodeCreds(options, "excludeCredentials"))))

\* decodeRequestOptions
decodeRequestOptions(options) ==
    IF base64URLToBuffer(options.challenge).threw THEN OptionsThrew(AtobError)
    ELSE IF CredsThrow(options, "allowCredentials")
    THEN OptionsThrew(AtobError)
    ELSE OptionsValue(
            Spread(options,
                ("challenge" :> base64URLToBuffer(options.challenge).bytes)
                @@ ("allowCredentials" :>
                        DecodeCreds(options, "allowCredentials"))))

(***************************************************************************)
(* State.                                                                  *)
(***************************************************************************)
VARIABLES
    supported,      \* window.PublicKeyCredential is a function
    lastEmailStore, \* localStorage['webauthn_last_email'], Null when absent
    nextSid,        \* server: the next session id it issues
    issued,         \* server: session id it returned to each ceremony's begin
    pc,             \* position of each ceremony invocation
    kind,           \* "register" / "login" (which function was invoked)
    email,          \* argument email
    username,       \* argument username (register only)
    resp,           \* the responses to the ceremony's begin and finish call
    sessionId,      \* beginResponse.sessionId
    result,         \* value the ceremony's promise settled with
    thrown,         \* value caught by the ceremony's catch block
    calls,          \* timer and signal of the ceremony's begin and finish call
    reqs,           \* requests the ceremony issued (fetch calls), in order
    platformCalls,  \* number of navigator.credentials.create/get calls
    storeWrites,    \* number of localStorage.setItem calls
    storeFailures,  \* number of localStorage.setItem calls that threw
    buf,            \* codec: the buffer given to bufferToBase64URL
    text,           \* codec: the encoded text
    decoded,        \* codec: the outcome of base64URLToBuffer
    reencoded,      \* codec: bufferToBase64URL of the decoded bytes
    cphase,         \* codec: "off"; "input", "encoded", "decoded" (from a
                    \* buffer); "text", "text_decoded", "reencoded" (from a
                    \* text)
    rawOptions,     \* options: the payload given to decode...Options
    options,        \* options: the outcome of decode...Options
    ophase,         \* options: "off"; "creation", "creation_decoded";
                    \* "request", "request_decoded"
    hasWindow,      \* typeof window !== 'undefined' (a browser, not a server)
    storeCall,      \* the last call of saveLastEmail / getLastEmail /
                    \* clearLastEmail made outside a ceremony, and its outcome
    isAvailable,    \* hook state isAvailable
    isEnrolled,     \* hook state isEnrolled
    supportedTypes, \* hook state supportedTypes
    isLoading,      \* hook state isLoading
    lastEmail,      \* hook state lastEmail
    check,          \* position of checkWebAuthnSupport: "mounted",
                    \* "awaiting", "done"
    hookCall        \* the hook's register / authenticate call that runs each
                    \* ceremony: its position and the value it returned

cerVars ==
    << supported, lastEmailStore, nextSid, issued, pc, kind, email, username,
       resp, sessionId, result, thrown, calls, reqs, platformCalls,
       storeWrites, storeFailures >>
optVars == << rawOptions, options, ophase >>
codecVars == << buf, text, decoded, reencoded, cphase, optVars >>
storeVars == << hasWindow, storeCall >>
hookVars ==
    << isAvailable, isEnrolled, supportedTypes, isLoading, lastEmail, check,
       hookCall >>
vars == << cerVars, codecVars, storeVars, hookVars >>

InFlight == {"BEGIN_REQUESTED", "BEGIN_BODY", "BEGIN_OK", "PLATFORM_CEREMONY",
             "FINISH_REQUESTED", "FINISH_BODY"}
FailedStates == {"BEGIN_FAILED", "PLATFORM_FAILED", "FINISH_FAILED"}
Terminal == FailedStates \cup {"UNSUPPORTED", "DONE"}

(***************************************************************************)
(* Expressions of the source.                                              *)
(***************************************************************************)
\* mutant: the capability check is skipped
isWebAuthnSupported_always == TRUE

\* isWebAuthnSupported()
isWebAuthnSupported == hasWindow /\ supported

\* the message of a non-2xx response:
\*   error = await response.json().catch(() => ({ error: 'network error' }))
\*   error.error || error.message || fallback
HttpFailureMessage(json, fallback) ==
    LET error == IF json.parsed THEN json
                 ELSE [error |-> MsgNetworkError, message |-> Undefined]
    IN Or(Or(error.error, error.message), fallback)

\* the message of a 2xx response that is refused: data.error || fallback
AppFailureMessage(json, fallback) == Or(json.error, fallback)

\* mutant: only the missing data makes begin fail
BeginRefused_dataOnly(json) == json.data = "none"

\* mutant: a begin call looks at success only
BeginRefused_successOnly(json) == ~json.success

\* beginRegistration / beginLogin: !data.success || !data.data
BeginRefused(json) == ~json.success \/ json.data = "none"

\* mutant: a finish call accepts every envelope
FinishRefused_never(json) == FALSE

\* finishRegistration / finishLogin: !data.success
FinishRefused(json) == ~json.success

Threw(err) == [threw |-> TRUE, error |-> err,
               token |-> Undefined, user |-> Undefined]
\* mutant: an absent token or user is returned as the empty string
Returned_defaulted(token, user) == [threw |-> FALSE, error |-> NoErr,
                                    token |-> Or(token, ""), user |-> Or(user, "")]

Returned(token, user) == [threw |-> FALSE, error |-> NoErr,
                          token |-> token, user |-> user]

\* mutant: the body's success flag is looked at before the HTTP status
BeginCall_bodyFirst(k, ok, json) ==
    IF json.parsed /\ ~BeginRefused(json) /\ json.data = "ok"
    THEN Returned(Undefined, Undefined)
    ELSE IF ~ok
    THEN Threw(NewError(HttpFailureMessage(json, BeginFallback(k))))
    ELSE IF ~json.parsed THEN Threw(json.rejection)
    ELSE IF BeginRefused(json)
    THEN Threw(NewError(AppFailureMessage(json, BeginFallback(k))))
    ELSE Threw(DecodeTypeError)

\* beginRegistration / beginLogin from the response on: status check, body,
\* success flag, decoding of the options
BeginCall(k, ok, json) ==
    IF ~ok
    THEN Threw(NewError(HttpFailureMessage(json, BeginFallback(k))))
    ELSE IF ~json.parsed THEN Threw(json.rejection)
    ELSE IF BeginRefused(json)
    THEN Threw(NewError(AppFailureMessage(json, BeginFallback(k))))
    ELSE IF json.data = "malformed" THEN Threw(DecodeTypeError)
    ELSE Returned(Undefined, Undefined)

\* finishRegistration / finishLogin from the response on; returns
\* data.data || {}
FinishCall(k, ok, json) ==
    IF ~ok
    THEN Threw(NewError(HttpFailureMessage(json, FinishFallback(k))))
    ELSE IF ~json.parsed THEN Threw(json.rejection)
    ELSE IF FinishRefused(json)
    THEN Threw(NewError(AppFailureMessage(json, FinishFallback(k))))
    ELSE IF json.data = "ok" THEN Returned(json.token, json.user)
    ELSE Returned(Undefined, Undefined)

\* mutant: error.message is used whatever was caught
CatchMessage_raw(err, fallback) == err.message

\* error instanceof Error ? error.message : fallback
CatchMessage(err, fallback) == IF err.isError THEN err.message ELSE fallback

\* mutant: no catch block, the caught value rejects the ceremony's promise
CeremonyCatch_rethrow(k, err) == Rejected(err)

\* the catch block of registerWebAuthnCredential / authenticateWebAuthn
CeremonyCatch(k, err) == Failure(CatchMessage(err, CeremonyFallback(k)))

\* mutant: a handle shared by all ceremonies, overwritten by each begin
FinishSessionId_shared(c) == nextSid - 1

\* the sessionId given to finishRegistration / finishLogin
FinishSessionId(c) == sessionId[c]

\* mutant: the null check is missing
CredentialMissing_never(out) == FALSE

\* if (!credential)
CredentialMissing(out) == out.outcome = "null"

\* mutant: the user name is stored
SavedIdentifier_username(c) == username[c]

\* the argument of saveLastEmail
SavedIdentifier(c) == email[c]

\* what localStorage.setItem / getItem / removeItem throws when it fails
StorageError == Err("QuotaExceededError", "The quota has been exceeded.")

\* mutant: the exception of the storage call leaves the function
StorageCatch_rethrow(callFails) == callFails

\* try { localStorage... } catch (error) { console.error(...) }: whether
\* the function throws when the storage call does
StorageCatch(callFails) == FALSE

\* mutant: saveLastEmail keeps a value that is already stored
saveLastEmail_keepFirst(store, e, writeFails) ==
    IF store = Null /\ ~writeFails THEN e ELSE store

\* saveLastEmail: the store after localStorage.setItem, which may throw
\* (the exception is caught and logged)
saveLastEmail(store, value, writeFails) ==
    IF writeFails THEN store ELSE value

\* getLastEmail: the value returned; null when localStorage.getItem throws
getLastEmail(store, readFails) ==
    IF readFails THEN Null ELSE store

\* mutant: clearLastEmail removes nothing
clearLastEmail_keeps(store, removeFails) == store

\* clearLastEmail: the store after localStorage.removeItem, which may throw
clearLastEmail(store, removeFails) ==
    IF removeFails THEN store ELSE Null

\* the outcome of a storage function called outside a ceremony
NoStoreCall ==
    [op |-> "none", arg |-> Undefined, failed |-> FALSE, threw |-> FALSE,
     value |-> Undefined]
StoreCall(op, arg, callFails, value) ==
    [op |-> op, arg |-> arg, failed |-> callFails,
     threw |-> StorageCatch(callFails),
     value |-> IF StorageCatch(callFails) THEN Undefined ELSE value]

\* mutant: no timer is set for the call
ArmTimer_never(call) == call

\* controller = new AbortController(); timeoutId = setTimeout(abort, 60 s)
ArmTimer(call) == [call EXCEPT !.timer = "armed", !.delay = REQUEST_TIMEOUT]

\* mutant: the finally block leaves the timer armed
ClearTimer_never(call) == call

\* finally { clearTimeout(timeoutId) }
ClearTimer(call) ==
    [call EXCEPT !.timer = IF @ = "armed" THEN "cleared" ELSE @]

\* mutant: the timer callback does not abort the controller
Abort_noSignal(call) == [call EXCEPT !.timer = "fired"]

\* the timer callback: controller.abort()
Abort(call) == [call EXCEPT !.timer = "fired", !.aborted = TRUE]

\* outcomes of navigator.credentials.create / get
PlatformOutcomes ==
    { [outcome |-> "credential", cred |-> cr, err |-> NoErr] :
        cr \in Credentials }
    \cup { [outcome |-> "null",
            cred |-> NoCredential,
            err |-> NoErr] }
    \cup { [outcome |-> "throw",
            cred |-> NoCredential,
            err |-> e] : e \in PlatformErrors \cup {NonError} }

\* a property value of requestData.credential.response: a text or undefined
Text(t) == [defined |-> TRUE, text |-> t]
UndefinedText == [defined |-> FALSE, text |-> << >>]

\* JSON.stringify of an object: a key whose value is undefined is left out
JSONStringify(object) ==
    [k \in {key \in DOMAIN object : object[key].defined} |-> object[k]]

\* mutant: a missing user handle is encoded as the empty buffer
UserHandleField_encodeEmpty(cred) == Text(bufferToBase64URL(cred.userHandle))

\* response.userHandle ? bufferToBase64URL(response.userHandle) : undefined
UserHandleField(cred) ==
    IF cred.hasUserHandle THEN Text(bufferToBase64URL(cred.userHandle))
    ELSE UndefinedText

\* requestData.credential.response; clientDataJSON stands for every field
\* that is always encoded (attestationObject, authenticatorData, signature)
ResponseData(k, cred) ==
    IF k = "register"
    THEN [clientDataJSON |-> Text(bufferToBase64URL(cred.clientDataJSON))]
    ELSE [clientDataJSON |-> Text(bufferToBase64URL(cred.clientDataJSON)),
          userHandle |-> UserHandleField(cred)]

\* the body of the begin request
BeginRequest(k, e, u) ==
    [endpoint |-> BeginEndpoint(k), email |-> e,
     username |-> IF k = "register" THEN u ELSE Undefined,
     sessionId |-> NoSession, credentialId |-> "", rawId |-> << >>,
     response |-> << >>]

\* the body of the finish request: JSON.stringify(requestData)
FinishRequest(k, sid, cred) ==
    [endpoint |-> FinishEndpoint(k), email |-> Undefined,
     username |-> Undefined, sessionId |-> sid,
     credentialId |-> cred.id, rawId |-> bufferToBase64URL(cred.rawId),
     response |-> JSONStringify(ResponseData(k, cred))]

(***************************************************************************)
(* The web hook useBiometrics (src/unnamed/part_001).                      *)
(***************************************************************************)
\* register: email or username is empty
MsgHookMissingInput == "enter email and username"
\* authenticate: neither options.email nor lastEmail
MsgHookNoEmail == "no email given"
\* isAvailable is false
MsgHookUnavailable == "this browser does not support biometrics (WebAuthn)"
\* the ceremony returned a failure without error text
HookFallback(k) ==
    IF k = "register" THEN "registration failed" ELSE "authentication failed"
\* the hook caught a value that is no Error
HookCatchFallback(k) == CeremonyFallback(k)
\* the dedicated messages of the hook's catch blocks
MsgHookCancelled(k) ==
    IF k = "register" THEN "registration was cancelled"
    ELSE "authentication was cancelled"
MsgHookTimeout == "authentication timed out"

\* WebAuthnAuthenticationType.PLATFORM
PLATFORM == 1

\* a call of register / authenticate: not made, awaiting its ceremony, or
\* returned with result; ran tells whether it invoked the ceremony
NoHookCall ==
    [phase |-> "idle", ran |-> FALSE, result |-> NoResult,
     op |-> "none", email |-> Undefined, username |-> Undefined]
HookAwaiting == [phase |-> "awaiting", ran |-> TRUE, result |-> NoResult]
HookRefused(error) ==
    [phase |-> "returned", ran |-> FALSE, result |-> Failure(error)]
HookReturned(r) == [phase |-> "returned", ran |-> TRUE, result |-> r]

\* a call of the hook's function op with its arguments (for authenticate:
\* options?.email and no username) and how far it got
HookCalled(op, e, u, call) ==
    [phase |-> call.phase, ran |-> call.ran, result |-> call.result,
     op |-> op, email |-> e, username |-> u]

\* mutant: the startup check takes every device as enrolled
EnrolledFrom_always(storedEmail) == TRUE

\* checkWebAuthnSupport: setIsEnrolled(!!email)
EnrolledFrom(storedEmail) == Truthy(storedEmail)

\* mutant: authenticate prefers the stored e-mail
HookEmail_storedFirst(optionsEmail, stored) == Or(stored, optionsEmail)

\* authenticate: options?.email || lastEmail
HookEmail(optionsEmail, stored) == Or(optionsEmail, stored)

\* the catch block of register / authenticate: the message of the caught
\* value is inspected for 'cancelled', 'abort' and (authenticate only)
\* 'timeout'
HookCatch(k, err) ==
    LET errorMessage == CatchMessage(err, HookCatchFallback(k))
    IN IF Includes(errorMessage, "cancelled") \/ Includes(errorMessage, "abort")
       THEN Failure(MsgHookCancelled(k))
       ELSE IF k = "login" /\ Includes(errorMessage, "timeout")
       THEN Failure(MsgHookTimeout)
       ELSE Failure(errorMessage)

\* what register / authenticate return once the ceremony's promise settled
\* with r (rejected: the catch block)
HookResult(k, r, err) ==
    IF r.threw THEN HookCatch(k, err)
    ELSE IF r.success THEN Success(r.token, r.user)
    ELSE Failure(Or(r.error, HookFallback(k)))

(***************************************************************************)
(* Initial state.                                                          *)
(***************************************************************************)
CodecOff ==
    /\ buf = << >>
    /\ text = << >>
    /\ decoded = Decoded(<< >>)
    /\ reencoded = << >>
    /\ cphase = "off"
    /\ rawOptions = << >>
    /\ options = NoOptions
    /\ ophase = "off"

CerInit ==
    /\ hasWindow \in BOOLEAN
    /\ supported \in IF hasWindow THEN BOOLEAN ELSE {FALSE}
    /\ lastEmailStore \in IF hasWindow THEN {Null, "old@example.com"}
                          ELSE {Null}
    /\ storeCall = NoStoreCall
    /\ nextSid = 1
    /\ issued = [c \in Cer |-> NoSession]
    /\ pc = [c \in Cer |-> "IDLE"]
    /\ kind = [c \in Cer |-> ""]
    /\ email = [c \in Cer |-> ""]
    /\ username = [c \in Cer |-> ""]
    /\ resp = [c \in Cer |-> NoResps]
    /\ sessionId = [c \in Cer |-> NoSession]
    /\ result = [c \in Cer |-> NoResult]
    /\ thrown = [c \in Cer |-> NoErr]
    /\ calls = [c \in Cer |-> NoCalls]
    /\ reqs = [c \in Cer |-> << >>]
    /\ platformCalls = [c \in Cer |-> 0]
    /\ storeWrites = [c \in Cer |-> 0]
    /\ storeFailures = [c \in Cer |-> 0]

\* the hook is mounted: the useState initial values
HookInit ==
    /\ isAvailable = FALSE
    /\ isEnrolled = FALSE
    /\ supportedTypes = {}
    /\ isLoading = TRUE
    /\ lastEmail = Null
    /\ check = "mounted"
    /\ hookCall = [c \in Cer |-> NoHookCall]

Init == CerInit /\ CodecOff /\ HookInit

(***************************************************************************)
(* Ceremony steps.  Each action is one run of the event loop: from the     *)
(* settling of the awaited promise to the next await or the return.        *)
(***************************************************************************)
\* mutant: after a failure the ceremony is started again
Caught_retry(c, state, err) ==
    /\ pc' = [pc EXCEPT ![c] = "IDLE"]
    /\ thrown' = [thrown EXCEPT ![c] = err]
    /\ result' = [result EXCEPT ![c] = CeremonyCatch(kind[c], err)]

\* the ceremony's catch block runs and the ceremony returns
Caught(c, state, err) ==
    /\ pc' = [pc EXCEPT ![c] = state]
    /\ thrown' = [thrown EXCEPT ![c] = err]
    /\ result' = [result EXCEPT ![c] = CeremonyCatch(kind[c], err)]

\* registerWebAuthnCredential(e, u) / authenticateWebAuthn(e) is invoked:
\* capability check, then beginRegistration / beginLogin up to its fetch
StartCeremony(c, k, e, u) ==
    /\ pc[c] = "IDLE"
    /\ kind' = [kind EXCEPT ![c] = k]
    /\ email' = [email EXCEPT ![c] = e]
    /\ username' = [username EXCEPT ![c] = IF k = "register" THEN u ELSE ""]
    /\ IF ~isWebAuthnSupported
       THEN /\ pc' = [pc EXCEPT ![c] = "UNSUPPORTED"]
            /\ result' = [result EXCEPT ![c] = Failure(MsgUnsupported)]
            /\ UNCHANGED << calls, reqs >>
       ELSE /\ pc' = [pc EXCEPT ![c] = "BEGIN_REQUESTED"]
            /\ calls' = [calls EXCEPT ![c].begin = ArmTimer(@)]
            /\ reqs' = [reqs EXCEPT ![c] = Append(@, BeginRequest(k, e, u))]
            /\ UNCHANGED result
    /\ UNCHANGED << supported, lastEmailStore, nextSid, issued, resp,
                    sessionId, thrown, platformCalls, storeWrites,
                    storeFailures, codecVars, storeVars >>

\* the ceremony is invoked directly, not through the hook
Start(c, k, e, u) ==
    /\ StartCeremony(c, k, e, u)
    /\ UNCHANGED hookVars

\* the begin fetch resolves with a response; its body is read next
BeginFetchResolve(c, ok) ==
    /\ pc[c] = "BEGIN_REQUESTED"
    /\ pc' = [pc EXCEPT ![c] = "BEGIN_BODY"]
    /\ resp' = [resp EXCEPT ![c].begin.arrived = TRUE, ![c].begin.ok = ok]
    /\ UNCHANGED << supported, lastEmailStore, nextSid, issued, kind, email,
                    username, sessionId, result, thrown, calls, reqs,
                    platformCalls, storeWrites, storeFailures, codecVars, storeVars, hookVars >>

\* the begin fetch rejects with err; call is the state of the call's timer
\* and signal at that moment
BeginFetchRejected(c, err, call) ==
    /\ pc[c] = "BEGIN_REQUESTED"
    /\ calls' = [calls EXCEPT ![c].begin = ClearTimer(call)]
    /\ Caught(c, "BEGIN_FAILED", err)
    /\ UNCHANGED << supported, lastEmailStore, nextSid, issued, kind, email,
                    username, resp, sessionId, reqs, platformCalls,
                    storeWrites, storeFailures, codecVars, storeVars, hookVars >>

\* the begin fetch rejects (network failure)
BeginFetchReject(c, err) == BeginFetchRejected(c, err, calls[c].begin)

\* the rest of beginRegistration / beginLogin once response.json() settled
\* with json; on success the server's fresh session id is returned
BeginSettled(c, json, call) ==
    LET out == BeginCall(kind[c], resp[c].begin.ok, json)
    IN /\ pc[c] = "BEGIN_BODY"
       /\ resp' = [resp EXCEPT ![c].begin.body = json]
       /\ calls' = [calls EXCEPT ![c].begin = ClearTimer(call)]
       /\ IF out.threw
          THEN /\ Caught(c, "BEGIN_FAILED", out.error)
               /\ UNCHANGED << nextSid, issued, sessionId >>
          ELSE /\ pc' = [pc EXCEPT ![c] = "BEGIN_OK"]
               /\ sessionId' = [sessionId EXCEPT ![c] = nextSid]
               /\ issued' = [issued EXCEPT ![c] = nextSid]
               /\ nextSid' = nextSid + 1
               /\ UNCHANGED << result, thrown >>
       /\ UNCHANGED << supported, lastEmailStore, kind, email, username,
                       reqs, platformCalls, storeWrites, storeFailures,
                       codecVars, storeVars, hookVars >>

\* response.json() of the begin response settles
BeginBody(c, json) == BeginSettled(c, json, calls[c].begin)

\* the 60 s timer of the begin call fires: controller.abort() rejects the
\* pending fetch or the pending body read with an AbortError
BeginTimeout(c) ==
    /\ calls[c].begin.timer = "armed"
    /\ \/ BeginFetchRejected(c, AbortError, Abort(calls[c].begin))
       \/ BeginSettled(c, Unparsed(AbortError), Abort(calls[c].begin))

\* navigator.credentials.create / get is called with the decoded options
PlatformCall(c) ==
    /\ pc[c] = "BEGIN_OK"
    /\ pc' = [pc EXCEPT ![c] = "PLATFORM_CEREMONY"]
    /\ platformCalls' = [platformCalls EXCEPT ![c] = @ + 1]
    /\ UNCHANGED << supported, lastEmailStore, nextSid, issued, kind, email,
                    username, resp, sessionId, result, thrown, calls, reqs,
                    storeWrites, storeFailures, codecVars, storeVars, hookVars >>

\* the platform call settles: a credential (finish call up to its fetch),
\* null, or an exception
PlatformSettle(c, out) ==
    /\ pc[c] = "PLATFORM_CEREMONY"
    /\ IF out.outcome = "throw"
       THEN /\ Caught(c, "PLATFORM_FAILED", out.err)
            /\ UNCHANGED << calls, reqs >>
       ELSE IF CredentialMissing(out)
       THEN /\ pc' = [pc EXCEPT ![c] = "PLATFORM_FAILED"]
            /\ result' = [result EXCEPT ![c] = Failure(MsgNoCredential(kind[c]))]
            /\ UNCHANGED << thrown, calls, reqs >>
       ELSE /\ pc' = [pc EXCEPT ![c] = "FINISH_REQUESTED"]
            /\ calls' = [calls EXCEPT ![c].finish = ArmTimer(@)]
            /\ reqs' = [reqs EXCEPT ![c] =
                   Append(@, FinishRequest(kind[c], FinishSessionId(c), out.cred))]
            /\ UNCHANGED << result, thrown >>
    /\ UNCHANGED << supported, lastEmailStore, nextSid, issued, kind, email,
                    username, resp, sessionId, platformCalls, storeWrites,
                    storeFailures, codecVars, storeVars, hookVars >>

\* the finish fetch resolves with a response; its body is read next
FinishFetchResolve(c, ok) ==
    /\ pc[c] = "FINISH_REQUESTED"
    /\ pc' = [pc EXCEPT ![c] = "FINISH_BODY"]
    /\ resp' = [resp EXCEPT ![c].finish.arrived = TRUE, ![c].finish.ok = ok]
    /\ UNCHANGED << supported, lastEmailStore, nextSid, issued, kind, email,
                    username, sessionId, result, thrown, calls, reqs,
                    platformCalls, storeWrites, storeFailures, codecVars, storeVars, hookVars >>

\* the finish fetch rejects with err
FinishFetchRejected(c, err, call) ==
    /\ pc[c] = "FINISH_REQUESTED"
    /\ calls' = [calls EXCEPT ![c].finish = ClearTimer(call)]
    /\ Caught(c, "FINISH_FAILED", err)
    /\ UNCHANGED << supported, lastEmailStore, nextSid, issued, kind, email,
                    username, resp, sessionId, reqs, platformCalls,
                    storeWrites, storeFailures, codecVars, storeVars, hookVars >>

\* the finish fetch rejects (network failure)
FinishFetchReject(c, err) == FinishFetchRejected(c, err, calls[c].finish)

\* the rest of finishRegistration / finishLogin once response.json() settled
\* with json, then saveLastEmail(email) and the return of the ceremony
FinishSettled(c, json, writeFails, call) ==
    LET out == FinishCall(kind[c], resp[c].finish.ok, json)
    IN /\ pc[c] = "FINISH_BODY"
       /\ resp' = [resp EXCEPT ![c].finish.body = json]
       /\ calls' = [calls EXCEPT ![c].finish = ClearTimer(call)]
       /\ IF out.threw
          THEN /\ Caught(c, "FINISH_FAILED", out.error)
               /\ UNCHANGED << lastEmailStore, storeWrites, storeFailures >>
          ELSE /\ lastEmailStore' =
                      saveLastEmail(lastEmailStore, SavedIdentifier(c), writeFails)
               /\ storeWrites' = [storeWrites EXCEPT ![c] = @ + 1]
               /\ storeFailures' = [storeFailures EXCEPT ![c] =
                      IF writeFails THEN @ + 1 ELSE @]
               /\ IF StorageCatch(writeFails)
                  THEN Caught(c, "FINISH_FAILED", StorageError)
                  ELSE /\ pc' = [pc EXCEPT ![c] = "DONE"]
                       /\ result' = [result EXCEPT ![c] =
                              Success(out.token, out.user)]
                       /\ UNCHANGED thrown
       /\ UNCHANGED << supported, nextSid, issued, kind, email, username,
                       sessionId, reqs, platformCalls, codecVars, storeVars, hookVars >>

\* response.json() of the finish response settles
FinishBody(c, json, writeFails) ==
    FinishSettled(c, json, writeFails, calls[c].finish)

\* the 60 s timer of the finish call fires
FinishTimeout(c) ==
    /\ calls[c].finish.timer = "armed"
    /\ \/ FinishFetchRejected(c, AbortError, Abort(calls[c].finish))
       \/ FinishSettled(c, Unparsed(AbortError), FALSE, Abort(calls[c].finish))

(***************************************************************************)
(* Specifications.                                                         *)
(* Spec: all ceremony invocations run interleaved; the responses are drawn *)
(* from one representative of each kind of outcome.                        *)
(* SoloSpec: one invocation, every response of the bounded sets.           *)
(***************************************************************************)
SomeBeginBodies ==
    { Envelope(TRUE, "ok", Undefined, Undefined, Undefined, Undefined),
      Envelope(FALSE, "none", "server error text", Undefined,
               Undefined, Undefined) }

SomeFinishBodies ==
    { Envelope(TRUE, "ok", Undefined, Undefined, "token-1", "user-1"),
      Envelope(FALSE, "none", Undefined, Undefined, Undefined, Undefined) }

SomePlatformOutcomes ==
    { out \in PlatformOutcomes :
        \/ out.outcome = "null"
        \/ out.outcome = "credential" /\ out.cred.id = "cred-1"
        \/ out.outcome = "throw" /\ out.err = NonError }

Steps(C, beginBodies, finishBodies, platformOutcomes) ==
    \/ \E c \in C, k \in Kinds, e \in Emails, u \in Usernames : Start(c, k, e, u)
    \/ \E c \in C, ok \in BOOLEAN : BeginFetchResolve(c, ok)
    \/ \E c \in C, err \in FetchRejections : BeginFetchReject(c, err)
    \/ \E c \in C, json \in beginBodies : BeginBody(c, json)
    \/ \E c \in C : BeginTimeout(c)
    \/ \E c \in C : PlatformCall(c)
    \/ \E c \in C, out \in platformOutcomes : PlatformSettle(c, out)
    \/ \E c \in C, ok \in BOOLEAN : FinishFetchResolve(c, ok)
    \/ \E c \in C, err \in FetchRejections : FinishFetchReject(c, err)
    \/ \E c \in C, json \in finishBodies, w \in BOOLEAN : FinishBody(c, json, w)
    \/ \E c \in C : FinishTimeout(c)

Next == Steps(Cer, SomeBeginBodies, SomeFinishBodies, SomePlatformOutcomes)

Spec == Init /\ [][Next]_vars

SoloNext == Steps({1}, BeginBodies, FinishBodies, PlatformOutcomes)

SoloSpec == Init /\ [][SoloNext]_vars

\* What the scheduling of the code guarantees for one ceremony: an armed
\* timer fires unless its call ends first (setTimeout), and the code between
\* the return of the begin call and the platform call runs (no await in
\* between).  Nothing makes the server answer or the platform call return.
Fairness ==
    /\ WF_vars(BeginTimeout(1))
    /\ WF_vars(FinishTimeout(1))
    /\ WF_vars(PlatformCall(1))

LiveSpec == Init /\ [][SoloNext]_vars /\ Fairness

(***************************************************************************)
(* Storage functions called outside a ceremony (by the UI), at any moment  *)
(* between two steps of a ceremony.  Without a window they do nothing.     *)
(***************************************************************************)
\* saveLastEmail(e) is called; localStorage.setItem throws when writeFails
SaveLastEmail(e, writeFails) ==
    /\ lastEmailStore' =
          IF hasWindow THEN saveLastEmail(lastEmailStore, e, writeFails)
          ELSE lastEmailStore
    /\ storeCall' = StoreCall("save", e, hasWindow /\ writeFails, Undefined)
    /\ UNCHANGED << supported, nextSid, issued, pc, kind, email, username,
                    resp, sessionId, result, thrown, calls, reqs,
                    platformCalls, storeWrites, storeFailures, codecVars,
                    hasWindow, hookVars >>

\* getLastEmail() is called; localStorage.getItem throws when readFails
GetLastEmail(readFails) ==
    /\ storeCall' =
          StoreCall("get", Undefined, hasWindow /\ readFails,
                    IF hasWindow THEN getLastEmail(lastEmailStore, readFails)
                    ELSE Null)
    /\ UNCHANGED << cerVars, codecVars, hasWindow, hookVars >>

\* clearLastEmail() is called; localStorage.removeItem throws when
\* removeFails
ClearLastEmail(removeFails) ==
    /\ lastEmailStore' =
          IF hasWindow THEN clearLastEmail(lastEmailStore, removeFails)
          ELSE lastEmailStore
    /\ storeCall' = StoreCall("clear", Undefined, hasWindow /\ removeFails, Undefined)
    /\ UNCHANGED << supported, nextSid, issued, pc, kind, email, username,
                    resp, sessionId, result, thrown, calls, reqs,
                    platformCalls, storeWrites, storeFailures, codecVars,
                    hasWindow, hookVars >>

StoreSteps ==
    \/ \E e \in Emails, w \in BOOLEAN : SaveLastEmail(e, w)
    \/ \E r \in BOOLEAN : GetLastEmail(r)
    \/ \E r \in BOOLEAN : ClearLastEmail(r)

\* one ceremony, with storage calls of the UI in between its steps
StoreNext == SoloNext \/ StoreSteps

StoreSpec == Init /\ [][StoreNext]_vars

(***************************************************************************)
(* The hook: its startup check, and register / authenticate, each running  *)
(* one ceremony.                                                           *)
(***************************************************************************)
\* checkWebAuthnSupport up to its await (run by the mount effect)
HookCheckStart ==
    /\ check = "mounted"
    /\ IF ~isWebAuthnSupported
       THEN /\ isAvailable' = FALSE
            /\ isEnrolled' = FALSE
            /\ isLoading' = FALSE
            /\ check' = "done"
       ELSE /\ isLoading' = TRUE
            /\ check' = "awaiting"
            /\ UNCHANGED << isAvailable, isEnrolled >>
    /\ UNCHANGED << supportedTypes, lastEmail, hookCall, cerVars, codecVars,
                    storeVars >>

\* isPlatformAuthenticatorAvailable() settled with platformAvailable (false
\* also when the platform's check threw); the rest of checkWebAuthnSupport
HookCheckSettle(platformAvailable, readFails) ==
    /\ check = "awaiting"
    /\ isAvailable' = platformAvailable
    /\ IF platformAvailable
       THEN /\ supportedTypes' = {PLATFORM}
            /\ lastEmail' = getLastEmail(lastEmailStore, readFails)
            /\ isEnrolled' = EnrolledFrom(getLastEmail(lastEmailStore, readFails))
       ELSE UNCHANGED << supportedTypes, lastEmail, isEnrolled >>
    /\ isLoading' = FALSE
    /\ check' = "done"
    /\ UNCHANGED << hookCall, cerVars, codecVars, storeVars >>

\* register(e, u) of the hook up to its first await or return
HookRegister(c, e, u) ==
    /\ hookCall[c].phase = "idle"
    /\ pc[c] = "IDLE"
    /\ IF ~Truthy(e) \/ ~Truthy(u)
       THEN /\ hookCall' = [hookCall EXCEPT ![c] =
                   HookCalled("register", e, u,
                              HookRefused(MsgHookMissingInput))]
            /\ UNCHANGED cerVars
       ELSE IF ~isAvailable
       THEN /\ hookCall' = [hookCall EXCEPT ![c] =
                   HookCalled("register", e, u,
                              HookRefused(MsgHookUnavailable))]
            /\ UNCHANGED cerVars
       ELSE /\ hookCall' = [hookCall EXCEPT ![c] =
                   HookCalled("register", e, u, HookAwaiting)]
            /\ StartCeremony(c, "register", e, u)
    /\ UNCHANGED << isAvailable, isEnrolled, supportedTypes, isLoading,
                    lastEmail, check, codecVars, storeVars >>

\* authenticate(options) of the hook up to its first await or return
HookAuthenticate(c, optionsEmail) ==
    LET e == HookEmail(optionsEmail, lastEmail)
    IN /\ hookCall[c].phase = "idle"
       /\ pc[c] = "IDLE"
       /\ IF ~Truthy(e)
          THEN /\ hookCall' = [hookCall EXCEPT ![c] =
                      HookCalled("authenticate", optionsEmail, Undefined,
                                 HookRefused(MsgHookNoEmail))]
               /\ UNCHANGED cerVars
          ELSE IF ~isAvailable
          THEN /\ hookCall' = [hookCall EXCEPT ![c] =
                      HookCalled("authenticate", optionsEmail, Undefined,
                                 HookRefused(MsgHookUnavailable))]
               /\ UNCHANGED cerVars
          ELSE /\ hookCall' = [hookCall EXCEPT ![c] =
                      HookCalled("authenticate", optionsEmail, Undefined,
                                 HookAwaiting)]
               /\ StartCeremony(c, "login", e, "")
       /\ UNCHANGED << isAvailable, isEnrolled, supportedTypes, isLoading,
                       lastEmail, check, codecVars, storeVars >>

\* the ceremony awaited by register / authenticate has settled: the rest
\* of the hook's function
HookSettle(c) ==
    /\ hookCall[c].phase = "awaiting"
    /\ pc[c] \in Terminal
    /\ hookCall' = [hookCall EXCEPT ![c] =
           HookCalled(hookCall[c].op, hookCall[c].email, hookCall[c].username,
                      HookReturned(HookResult(kind[c], result[c], thrown[c])))]
    /\ IF ~result[c].threw /\ result[c].success
       THEN /\ lastEmail' = email[c]
            /\ isEnrolled' = IF kind[c] = "register" THEN TRUE ELSE isEnrolled
       ELSE UNCHANGED << lastEmail, isEnrolled >>
    /\ UNCHANGED << isAvailable, supportedTypes, isLoading, check, cerVars,
                    codecVars, storeVars >>

HookSteps(c) ==
    \/ HookCheckStart
    \/ \E a \in BOOLEAN, r \in BOOLEAN : HookCheckSettle(a, r)
    \/ \E e \in Emails \cup {""}, u \in Usernames \cup {""} :
          HookRegister(c, e, u)
    \/ \E o \in Emails \cup {Undefined} : HookAuthenticate(c, o)
    \/ HookSettle(c)

\* one ceremony, run through the hook or directly
HookNext ==
    \/ HookSteps(1)
    \/ Steps({1}, SomeBeginBodies, SomeFinishBodies, PlatformOutcomes)

HookSpec == Init /\ [][HookNext]_vars

(***************************************************************************)
(* Codec specification: every buffer of the bounded set is encoded and the *)
(* text decoded again; every text of the bounded set is decoded and the    *)
(* bytes encoded again.                                                    *)
(***************************************************************************)
CodecInit ==
    /\ CerInit
    /\ HookInit
    /\ hasWindow = TRUE
    /\ supported = TRUE
    /\ lastEmailStore = Null
    /\ rawOptions = << >>
    /\ options = NoOptions
    /\ ophase = "off"
    /\ decoded = Decoded(<< >>)
    /\ reencoded = << >>
    /\ \/ buf \in Buffers /\ text = << >> /\ cphase = "input"
       \/ buf = << >> /\ text \in Texts /\ cphase = "text"

\* text = bufferToBase64URL(buf)
Encode ==
    /\ cphase = "input"
    /\ text' = bufferToBase64URL(buf)
    /\ cphase' = "encoded"
    /\ UNCHANGED << buf, decoded, reencoded, cerVars, optVars, storeVars, hookVars >>

\* decoded = base64URLToBuffer(text)
Decode ==
    /\ cphase = "encoded"
    /\ decoded' = base64URLToBuffer(text)
    /\ cphase' = "decoded"
    /\ UNCHANGED << buf, text, reencoded, cerVars, optVars, storeVars, hookVars >>

\* decoded = base64URLToBuffer(text) for a text that is given, not encoded
DecodeText ==
    /\ cphase = "text"
    /\ decoded' = base64URLToBuffer(text)
    /\ cphase' = "text_decoded"
    /\ UNCHANGED << buf, text, reencoded, cerVars, optVars, storeVars, hookVars >>

\* reencoded = bufferToBase64URL(decoded), when the text was accepted
Reencode ==
    /\ cphase = "text_decoded"
    /\ ~decoded.threw
    /\ reencoded' = bufferToBase64URL(decoded.bytes)
    /\ cphase' = "reencoded"
    /\ UNCHANGED << buf, text, decoded, cerVars, optVars, storeVars, hookVars >>

CodecNext == Encode \/ Decode \/ DecodeText \/ Reencode

CodecSpec == CodecInit /\ [][CodecNext]_vars

(***************************************************************************)
(* Options specification: every payload of the bounded sets is given to    *)
(* decodeCreationOptions or decodeRequestOptions.                          *)
(***************************************************************************)
OptionsInit ==
    /\ CerInit
    /\ HookInit
    /\ hasWindow = TRUE
    /\ supported = TRUE
    /\ lastEmailStore = Null
    /\ buf = << >>
    /\ text = << >>
    /\ decoded = Decoded(<< >>)
    /\ reencoded = << >>
    /\ cphase = "off"
    /\ options = NoOptions
    /\ \/ rawOptions \in RawCreationOptions /\ ophase = "creation"
       \/ rawOptions \in RawRequestOptions /\ ophase = "request"

\* options = decodeCreationOptions(rawOptions)
DecodeCreation ==
    /\ ophase = "creation"
    /\ options' = decodeCreationOptions(rawOptions)
    /\ ophase' = "creation_decoded"
    /\ UNCHANGED << rawOptions, buf, text, decoded, reencoded, cphase, cerVars, storeVars, hookVars >>

\* options = decodeRequestOptions(rawOptions)
DecodeRequest ==
    /\ ophase = "request"
    /\ options' = decodeRequestOptions(rawOptions)
    /\ ophase' = "request_decoded"
    /\ UNCHANGED << rawOptions, buf, text, decoded, reencoded, cphase, cerVars, storeVars, hookVars >>

OptionsNext == DecodeCreation \/ DecodeRequest

OptionsSpec == OptionsInit /\ [][OptionsNext]_vars

(***************************************************************************)
(* Properties.                                                             *)
(***************************************************************************)
FinishEndpoints == {FinishEndpoint(k) : k \in Kinds}
BeginEndpoints == {BeginEndpoint(k) : k \in Kinds}

\* the finish requests a ceremony has issued
FinishRequests(c) ==
    {reqs[c][i] : i \in {j \in 1..Len(reqs[c]) : reqs[c][j].endpoint \in FinishEndpoints}}

\* the state of the ceremony state machine a position belongs to
CeremonyState(p) ==
    IF p = "BEGIN_BODY" THEN "BEGIN_REQUESTED"
    ELSE IF p = "FINISH_BODY" THEN "FINISH_REQUESTED"
    ELSE p

\* the transitions of the ceremony state machine (with the capability
\* short-circuit out of IDLE)
CeremonyTransitions ==
    { << "IDLE", "BEGIN_REQUESTED" >>, << "IDLE", "UNSUPPORTED" >>,
      << "BEGIN_REQUESTED", "BEGIN_OK" >>, << "BEGIN_REQUESTED", "BEGIN_FAILED" >>,
      << "BEGIN_OK", "PLATFORM_CEREMONY" >>,
      << "PLATFORM_CEREMONY", "FINISH_REQUESTED" >>,
      << "PLATFORM_CEREMONY", "PLATFORM_FAILED" >>,
      << "FINISH_REQUESTED", "DONE" >>, << "FINISH_REQUESTED", "FINISH_FAILED" >> }

\* C1: the sessionId of every finish request of a ceremony is the sessionId
\* the server returned to the begin call of that same ceremony, and is the
\* handle of no other ceremony, whatever the interleaving of the ceremonies.
C1_FinishSendsOwnSession ==
    \A c \in Cer : \A r \in FinishRequests(c) :
        /\ issued[c] # NoSession
        /\ r.sessionId = issued[c]
        /\ \A d \in Cer \ {c} : r.sessionId # issued[d]

\* C1 witness: a registration and a login run interleaved and both have sent
\* their finish request, the one that began first after the other began.
C1_Witness ==
    \E c, d \in Cer :
        /\ kind[c] = "register" /\ kind[d] = "login"
        /\ pc[c] = "FINISH_REQUESTED" /\ pc[d] = "FINISH_REQUESTED"
        /\ issued[c] = 1 /\ issued[d] = 2
        /\ \E r \in FinishRequests(c) : r.sessionId = 1
        /\ \E r \in FinishRequests(d) : r.sessionId = 2

\* C2: every ceremony moves along IDLE -> BEGIN_REQUESTED -> BEGIN_OK ->
\* PLATFORM_CEREMONY -> FINISH_REQUESTED -> DONE; the platform call is made
\* only after begin succeeded, a finish request is issued only after the
\* platform call returned a credential, and from BEGIN_FAILED,
\* PLATFORM_FAILED or FINISH_FAILED on no request and no platform call follows.
C2_CeremonyOrder ==
    [][\A c \in Cer :
        /\ CeremonyState(pc'[c]) # CeremonyState(pc[c]) =>
              << CeremonyState(pc[c]), CeremonyState(pc'[c]) >> \in CeremonyTransitions
        /\ platformCalls'[c] > platformCalls[c] =>
              /\ pc[c] = "BEGIN_OK"
              /\ resp[c].begin.arrived /\ issued[c] # NoSession
        /\ Len(reqs'[c]) > Len(reqs[c]) =>
              \/ pc[c] = "IDLE" /\ reqs'[c][Len(reqs'[c])].endpoint \in BeginEndpoints
              \/ /\ pc[c] = "PLATFORM_CEREMONY" /\ platformCalls[c] = 1
                 /\ reqs'[c][Len(reqs'[c])].endpoint \in FinishEndpoints
                 /\ reqs'[c][Len(reqs'[c])].credentialId
                        \in {cr.id : cr \in Credentials}
        /\ pc[c] \in FailedStates =>
              /\ pc'[c] = pc[c]
              /\ reqs'[c] = reqs[c]
              /\ platformCalls'[c] = platformCalls[c]
      ]_vars

\* C2 witness: a ceremony failed in the platform call after a successful
\* begin (one request, one platform call) while another one is DONE.
C2_Witness ==
    \E c, d \in Cer :
        /\ pc[c] = "PLATFORM_FAILED" /\ Len(reqs[c]) = 1 /\ platformCalls[c] = 1
        /\ pc[d] = "DONE" /\ Len(reqs[d]) = 2 /\ platformCalls[d] = 1

\* the token and user a finish response supplies (data.data || {})
SuppliedToken(body) == IF body.data = "ok" THEN body.token ELSE Undefined
SuppliedUser(body) == IF body.data = "ok" THEN body.user ELSE Undefined

\* the ceremony c returns on this step, all three steps having succeeded
ReturnsSuccess(c) == pc[c] = "FINISH_BODY" /\ pc'[c] = "DONE"

\* C3 as claimed: a ceremony whose begin, platform call and finish succeeded
\* returns {success: true, token, user} with the token and user of the
\* finish response, and on return LastUsedIdentifier is the e-mail the
\* ceremony was invoked with.
C3_Original ==
    [][\A c \in Cer : ReturnsSuccess(c) =>
          /\ result'[c] = Success(SuppliedToken(resp'[c].finish.body),
                                  SuppliedUser(resp'[c].finish.body))
          /\ lastEmailStore' = email[c]
      ]_vars

\* C3 amended: ... and on return LastUsedIdentifier is the e-mail the
\* ceremony was invoked with unless the storage write threw; then it is
\* left as it was, and the ceremony still returns success.
C3_SuccessReturnsAndSaves ==
    [][\A c \in Cer : ReturnsSuccess(c) =>
          /\ result'[c] = Success(SuppliedToken(resp'[c].finish.body),
                                  SuppliedUser(resp'[c].finish.body))
          /\ storeWrites'[c] = storeWrites[c] + 1
          /\ lastEmailStore' =
                IF storeFailures'[c] = storeFailures[c] THEN email[c]
                ELSE lastEmailStore
      ]_vars

\* C3 witness: a login returned success with token and user, the e-mail is
\* stored and differs from what was stored at the start.
C3_Witness ==
    \E c \in Cer :
        /\ pc[c] = "DONE" /\ kind[c] = "login"
        /\ result[c] = Success("token-1", "user-1")
        /\ storeFailures[c] = 0
        /\ lastEmailStore = email[c]

\* C4: a 2xx begin response whose body says success: false ends the
\* ceremony with {success: false, error}, error being the body's error text
\* or else the generic fallback of the begin call, and the platform call is
\* never made.
C4_BeginRefused ==
    \A c \in Cer :
        LET r == resp[c].begin
        IN r.arrived /\ r.ok /\ r.body.parsed /\ ~r.body.success =>
              /\ pc[c] = "BEGIN_FAILED"
              /\ result[c] =
                    Failure(IF Truthy(r.body.error) THEN r.body.error
                            ELSE BeginFallback(kind[c]))
              /\ platformCalls[c] = 0

\* C4 witness: a refused registration begin that carries data and no error.
C4_Witness ==
    \E c \in Cer :
        /\ kind[c] = "register" /\ pc[c] = "BEGIN_FAILED"
        /\ resp[c].begin.ok /\ resp[c].begin.body.parsed
        /\ ~resp[c].begin.body.success /\ resp[c].begin.body.data = "ok"
        /\ resp[c].begin.body.error = Undefined
        /\ result[c].error = BeginFallback("register")

\* C5: a begin response with a non-2xx status makes the begin call fail
\* whatever its body says (also success: true with usable options); no
\* platform call is made.
C5_StatusBeforeBody ==
    \A c \in Cer :
        LET r == resp[c].begin
        IN r.arrived /\ ~r.ok /\ r.body # NoBody =>
              /\ pc[c] = "BEGIN_FAILED"
              /\ result[c].returned /\ ~result[c].success
              /\ thrown[c].isError
              /\ platformCalls[c] = 0
              /\ sessionId[c] = NoSession

\* C5 witness: status not ok, body {success: true, data} with usable options.
C5_Witness ==
    \E c \in Cer :
        /\ resp[c].begin.arrived /\ ~resp[c].begin.ok
        /\ resp[c].begin.body.parsed /\ resp[c].begin.body.success
        /\ resp[c].begin.body.data = "ok"
        /\ pc[c] = "BEGIN_FAILED"
        /\ result[c] = Failure(BeginFallback(kind[c]))

\* C6: without the credential API a ceremony returns {success: false,
\* error: unsupported} at once; it issues no request, makes no platform
\* call and writes nothing to the storage.
C6_UnsupportedShortCircuit ==
    ~supported =>
        \A c \in Cer :
            /\ pc[c] \in {"IDLE", "UNSUPPORTED"}
            /\ pc[c] = "UNSUPPORTED" => result[c] = Failure(MsgUnsupported)
            /\ reqs[c] = << >>
            /\ platformCalls[c] = 0
            /\ storeWrites[c] = 0
            /\ calls[c] = NoCalls

\* C6 witness: a ceremony was invoked without the credential API.
C6_Witness ==
    /\ ~supported
    /\ \E c \in Cer : pc[c] = "UNSUPPORTED" /\ kind[c] = "login"

CallNames == {"begin", "finish"}
FailedStateOf(call) == IF call = "begin" THEN "BEGIN_FAILED" ELSE "FINISH_FAILED"

\* the timer of the call fired before any response arrived
TimedOut(c, call) ==
    calls[c][call].timer = "fired" /\ ~resp[c][call].arrived

C8_NeverThrows ==
    \A c \in Cer :
        /\ pc[c] \in Terminal <=> result[c].returned
        /\ result[c].returned =>
              /\ ~result[c].threw
              /\ \/ result[c].success /\ result[c].error = Undefined
                 \/ ~result[c].success /\ result[c].error # Undefined

\* C8 witness: the finish fetch rejected with a value that is no Error.
C8_Witness ==
    \E c \in Cer :
        /\ pc[c] = "FINISH_FAILED" /\ thrown[c] = NonError
        /\ result[c] = Failure(CeremonyFallback(kind[c]))

\* C9 as claimed: on a non-2xx status and on a 2xx body with success: false
\* alike, the failure message of a begin or finish call is the body's error,
\* else the body's message, else the generic fallback of the call.
C9_ErrorMessageFallback ==
    \A c \in Cer : \A call \in CallNames :
        LET r == resp[c][call]
            fallback == IF call = "begin" THEN BeginFallback(kind[c])
                        ELSE FinishFallback(kind[c])
        IN r.arrived /\ r.body.parsed /\ (~r.ok \/ ~r.body.success) =>
              /\ pc[c] = FailedStateOf(call)
              /\ result[c].error = Or(Or(r.body.error, r.body.message), fallback)

\* C10: decoding the encoding of a buffer gives the buffer back, for the
\* empty buffer and every length modulo 3 and 4.
C10_DecodeEncode ==
    cphase = "decoded" => decoded = Decoded(buf)

\* C10 witness: a two-byte buffer whose encoding uses '-' and '_' and lost
\* its padding.
C10_Witness ==
    /\ cphase = "decoded"
    /\ buf = << 251, 255 >>
    /\ text = << "-", "_", "8" >>
    /\ decoded = Decoded(buf)

\* the bits of the last character of a text that atob discards: the low 4
\* bits when one byte is left over, the low 2 bits when two are
DiscardedBits(t) ==
    LET last == Base64Index(
                    ReplaceAll(ReplaceAll(t, "-", "+"), "_", "/")[Len(t)])
    IN IF Len(t) % 4 = 2 THEN last % 16
       ELSE IF Len(t) % 4 = 3 THEN last % 4
       ELSE 0

\* C11 as stated: every padding-free URL-safe text that base64URLToBuffer
\* accepts is given back by encoding the decoded bytes.
C11_Original ==
    cphase = "reencoded" => reencoded = text

\* C11: a padding-free URL-safe text that base64URLToBuffer accepts is given
\* back by encoding the decoded bytes when the bits of its last character
\* that the decoder discards are zero; otherwise the re-encoded text has the
\* same length and differs from the text in the last character only.
C11_EncodeDecode ==
    cphase = "reencoded" =>
        /\ Len(reencoded) = Len(text)
        /\ \A i \in 1..(Len(text) - 1) : reencoded[i] = text[i]
        /\ (reencoded = text <=> DiscardedBits(text) = 0)

\* C11 witness: a three-character text with no discarded bits set is
\* decoded to two bytes and encoded back to itself.
C11_Witness ==
    /\ cphase = "reencoded"
    /\ text = << "-", "_", "E" >>
    /\ decoded = Decoded(<< 251, 241 >>)
    /\ reencoded = text

\* the URL-safe alphabet: A-Z, a-z, 0-9, '-' and '_'
IsUrlSafeChar(ch) ==
    \/ IsBase64Char(ch) /\ ch \notin {"+", "/"}
    \/ ch \in {"-", "_"}

\* C12: the encoding of a buffer holds only characters of the URL-safe
\* alphabet (no '+', '/' or '=') and has length ceil(4 * len / 3).
C12_EncodedAlphabetAndLength ==
    /\ cphase \in {"encoded", "decoded"} =>
          /\ \A i \in 1..Len(text) : IsUrlSafeChar(text[i])
          /\ Len(text) = (4 * Len(buf) + 2) \div 3
    /\ cphase = "reencoded" =>
          /\ \A i \in 1..Len(reencoded) : IsUrlSafeChar(reencoded[i])
          /\ Len(reencoded) = (4 * Len(decoded.bytes) + 2) \div 3

\* C12 witness: a one-byte buffer whose base64 form is "/w==" is encoded
\* as the two characters "_w".
C12_Witness ==
    /\ cphase = "encoded"
    /\ buf = << 255 >>
    /\ text = << "_", "w" >>

\* the entries of a decoded list are the input's entries in the same order
\* and number, each with the same keys, its id converted, the rest untouched
CredsConverted(out, in) ==
    /\ Len(out) = Len(in)
    /\ \A i \in 1..Len(in) :
           /\ DOMAIN out[i] = DOMAIN in[i]
           /\ out[i].id = base64URLToBuffer(in[i].id).bytes
           /\ \A k \in DOMAIN in[i] \ {"id"} : out[i][k] = in[i][k]

\* the decoded payload holds the converted challenge, the converted list
\* when the input has one, and every other field of the input untouched
FieldsConverted(out, in, listKey, converted) ==
    /\ out.challenge = base64URLToBuffer(in.challenge).bytes
    /\ listKey \in DOMAIN in => CredsConverted(out[listKey], in[listKey])
    /\ \A k \in DOMAIN in \ converted : out[k] = in[k]

\* the decoded user holds the converted id and every other field untouched
UserConverted(out, in) ==
    /\ DOMAIN out = DOMAIN in
    /\ out.id = base64URLToBuffer(in.id).bytes
    /\ \A k \in DOMAIN in \ {"id"} : out[k] = in[k]

\* C13: decodeCreationOptions converts exactly challenge, user.id and the id
\* of every exclusion entry; every other field, the order and number of the
\* entries and the set of keys present are those of the input, also when
\* excludeCredentials is absent from the input.
C13_DecodeCreationFrame ==
    ophase = "creation_decoded" /\ ~options.threw =>
        /\ FieldsConverted(options.value, rawOptions, "excludeCredentials",
                           {"challenge", "user", "excludeCredentials"})
        /\ UserConverted(options.value.user, rawOptions.user)
        /\ DOMAIN options.value = DOMAIN rawOptions

\* what holds of decodeCreationOptions: as C13, but the result always has
\* the key excludeCredentials, undefined when the input has none
C13_FrameButListKey ==
    ophase = "creation_decoded" /\ ~options.threw =>
        /\ FieldsConverted(options.value, rawOptions, "excludeCredentials",
                           {"challenge", "user", "excludeCredentials"})
        /\ UserConverted(options.value.user, rawOptions.user)
        /\ DOMAIN options.value = DOMAIN rawOptions \cup {"excludeCredentials"}
        /\ "excludeCredentials" \notin DOMAIN rawOptions =>
              options.value.excludeCredentials = Undefined

\* C14: decodeRequestOptions converts exactly challenge and the id of every
\* allow-list entry; every other field, the order and number of the entries
\* and the set of keys present are those of the input, also when
\* allowCredentials is absent from the input.
C14_DecodeRequestFrame ==
    ophase = "request_decoded" /\ ~options.threw =>
        /\ FieldsConverted(options.value, rawOptions, "allowCredentials",
                           {"challenge", "allowCredentials"})
        /\ DOMAIN options.value = DOMAIN rawOptions

\* what holds of decodeRequestOptions: as C14, but the result always has
\* the key allowCredentials, undefined when the input has none
C14_FrameButListKey ==
    ophase = "request_decoded" /\ ~options.threw =>
        /\ FieldsConverted(options.value, rawOptions, "allowCredentials",
                           {"challenge", "allowCredentials"})
        /\ DOMAIN options.value = DOMAIN rawOptions \cup {"allowCredentials"}
        /\ "allowCredentials" \notin DOMAIN rawOptions =>
              options.value.allowCredentials = Undefined

\* the credential the platform call of ceremony c produced
CredentialOf(request) ==
    CHOOSE cr \in Credentials : cr.id = request.credentialId

\* C15: the body of a login finish request has a userHandle key exactly when
\* the assertion has a user handle, and the key then carries the encoding
\* of its bytes; without a user handle the body has no userHandle key.
C15_UserHandleOmitted ==
    \A c \in Cer : \A i \in 1..Len(reqs[c]) :
        LET request == reqs[c][i]
        IN request.endpoint = FinishEndpoint("login") =>
              /\ "userHandle" \in DOMAIN request.response
                    <=> CredentialOf(request).hasUserHandle
              /\ CredentialOf(request).hasUserHandle =>
                    request.response.userHandle =
                        Text(bufferToBase64URL(CredentialOf(request).userHandle))

\* C15 witness: a login ceremony sent its finish request for an assertion
\* without user handle, and the body's response has clientDataJSON only.
C15_Witness ==
    /\ pc[1] = "FINISH_REQUESTED"
    /\ kind[1] = "login"
    /\ Len(reqs[1]) = 2
    /\ reqs[1][2].credentialId = "cred-1"
    /\ DOMAIN reqs[1][2].response = {"clientDataJSON"}

\* C16: a ceremony whose finish response is a 2xx success envelope returns
\* success with exactly the token and user of the envelope's data, undefined
\* where the data has none, and with neither when the envelope has no data.
C16_FinishReturnsSupplied ==
    \A c \in Cer :
        LET r == resp[c].finish
        IN r.arrived /\ r.ok /\ r.body.parsed /\ r.body.success =>
              /\ pc[c] = "DONE"
              /\ result[c].returned /\ result[c].success
              /\ result[c].error = Undefined
              /\ r.body.data = "ok" =>
                    /\ result[c].token = r.body.token
                    /\ result[c].user = r.body.user
              /\ r.body.data = "none" =>
                    /\ result[c].token = Undefined
                    /\ result[c].user = Undefined

\* C16 witness: a registration whose finish response is {success: true}
\* without data returned success with no token and no user.
C16_Witness ==
    /\ pc[1] = "DONE" /\ kind[1] = "register"
    /\ resp[1].finish.body.success
    /\ resp[1].finish.body.data = "none"
    /\ result[1] = Success(Undefined, Undefined)

\* C16 witness of a partly supplied result: token without user.
C16_WitnessTokenOnly ==
    /\ pc[1] = "DONE"
    /\ resp[1].finish.body.data = "ok"
    /\ result[1] = Success("token-1", Undefined)

\* the requests ceremony c sent to one of the endpoints
RequestsTo(c, endpoints) ==
    {i \in 1..Len(reqs[c]) : reqs[c][i].endpoint \in endpoints}

\* C17: a ceremony whose platform call returned null or threw has returned
\* {success: false, error} (the missing-credential message, the message of
\* the exception, or the generic one for a non-Error), has sent its begin
\* request only, and has not written LastUsedIdentifier.
C17_PlatformFailure ==
    \A c \in Cer :
        pc[c] = "PLATFORM_FAILED" =>
            /\ result[c] =
                  Failure(IF thrown[c] = NoErr THEN MsgNoCredential(kind[c])
                          ELSE IF thrown[c].isError THEN thrown[c].message
                          ELSE CeremonyFallback(kind[c]))
            /\ platformCalls[c] = 1
            /\ RequestsTo(c, FinishEndpoints) = {}
            /\ Len(reqs[c]) = 1
            /\ storeWrites[c] = 0

\* C17 witness: the platform call of a login threw something that is not
\* an Error; the ceremony returned the generic failure.
C17_Witness ==
    /\ pc[1] = "PLATFORM_FAILED" /\ kind[1] = "login"
    /\ thrown[1] = NonError
    /\ result[1] = Failure(CeremonyFallback("login"))
    /\ Len(reqs[1]) = 1

\* C17 witness of the null case: no credential, nothing thrown.
C17_WitnessNull ==
    /\ pc[1] = "PLATFORM_FAILED" /\ kind[1] = "register"
    /\ thrown[1] = NoErr
    /\ result[1] = Failure(MsgNoCredential("register"))

\* C18: an invocation sends at most one begin request, makes at most one
\* platform call and sends at most one finish request, whatever the outcome
\* of each step.
C18_SingleAttempt ==
    \A c \in Cer :
        /\ Cardinality(RequestsTo(c, BeginEndpoints)) <= 1
        /\ Cardinality(RequestsTo(c, FinishEndpoints)) <= 1
        /\ Len(reqs[c]) <= 2
        /\ platformCalls[c] <= 1

\* C18 witness: both invocations are over, one after its finish call timed
\* out and one after its begin call was refused; neither repeated a step.
C18_Witness ==
    /\ pc[1] = "FINISH_FAILED"
    /\ calls[1].finish.timer = "fired"
    /\ Len(reqs[1]) = 2 /\ platformCalls[1] = 1
    /\ pc[2] = "BEGIN_FAILED"
    /\ Len(reqs[2]) = 1 /\ platformCalls[2] = 0

\* C19: a ceremony whose storage write threw after begin, platform call
\* and finish succeeded has returned {success: true, token, user}; and a
\* call of saveLastEmail, getLastEmail or clearLastEmail returns, never
\* throws, when the storage call inside it throws (getLastEmail then
\* returns null).
C19_StorageFailureSwallowed ==
    /\ \A c \in Cer :
          storeFailures[c] > 0 =>
              /\ pc[c] = "DONE"
              /\ result[c] = Success(SuppliedToken(resp[c].finish.body),
                                     SuppliedUser(resp[c].finish.body))
    /\ storeCall.failed =>
          /\ ~storeCall.threw
          /\ storeCall.op = "get" => storeCall.value = Null

\* C19 witness: the storage write of a successful login threw; the login
\* returned success with token and user and the stored e-mail is not the
\* login's.
C19_Witness ==
    /\ pc[1] = "DONE" /\ kind[1] = "login"
    /\ storeFailures[1] = 1
    /\ result[1] = Success("token-1", "user-1")
    /\ lastEmailStore # email[1]

\* C19 witness of a failing read: getLastEmail returned null although an
\* e-mail is stored.
C19_WitnessGet ==
    /\ storeCall = [op |-> "get", arg |-> Undefined, failed |-> TRUE,
                    threw |-> FALSE, value |-> Null]
    /\ lastEmailStore = "a@example.com"

\* the platform call of ceremony c threw an Error whose message contains sub
PlatformFailedWith(c, sub) ==
    /\ pc[c] = "PLATFORM_FAILED"
    /\ thrown[c].isError
    /\ Includes(thrown[c].message, sub)

\* C20: when the platform call failed with a message containing
\* 'cancelled' or 'abort', or 'timeout', the result returned by the hook's
\* register / authenticate carries the hook's cancellation message, or its
\* timeout message, and not the platform's message.
C20_HookDedicatedMessage ==
    \A c \in Cer :
        hookCall[c].phase = "returned" /\ hookCall[c].ran =>
            /\ PlatformFailedWith(c, "cancelled") \/ PlatformFailedWith(c, "abort")
                  => hookCall[c].result = Failure(MsgHookCancelled(kind[c]))
            /\ PlatformFailedWith(c, "timeout")
                  => /\ hookCall[c].result.error # thrown[c].message
                     /\ kind[c] = "login" =>
                           hookCall[c].result = Failure(MsgHookTimeout)

\* what holds of the hook: the ceremony returns its failures, so the hook's
\* catch block is not run and the hook returns the ceremony's error text,
\* which for a failed platform call is the platform's message
C20_HookReturnsCeremonyError ==
    \A c \in Cer :
        hookCall[c].phase = "returned" /\ hookCall[c].ran
          /\ pc[c] \in FailedStates =>
            /\ ~result[c].threw
            /\ hookCall[c].result =
                  Failure(Or(result[c].error, HookFallback(kind[c])))
            /\ pc[c] = "PLATFORM_FAILED" /\ thrown[c].isError =>
                  hookCall[c].result.error = thrown[c].message

\* C21: a begin or finish call in flight ends (its timer fires if nothing
\* else ends it), so a ceremony past its start reaches the platform call or
\* a terminal state, and one whose platform call returned reaches a
\* terminal state; during the platform call no timer of the ceremony is
\* armed, so nothing of the client ends that step.
C21_CallsTerminate ==
    /\ [](\A c \in Cer :
             pc[c] = "PLATFORM_CEREMONY" =>
                 /\ calls[c].begin.timer # "armed"
                 /\ calls[c].finish.timer # "armed")
    /\ (pc[1] \in {"BEGIN_REQUESTED", "BEGIN_BODY", "BEGIN_OK"})
          ~> (pc[1] \in Terminal \cup {"PLATFORM_CEREMONY"})
    /\ (pc[1] \in {"FINISH_REQUESTED", "FINISH_BODY"}) ~> (pc[1] \in Terminal)

\* the ceremony also leaves the platform call (it does not: the platform
\* call may never return)
C21_PlatformCallEnds ==
    (pc[1] = "PLATFORM_CEREMONY") ~> (pc[1] \in Terminal)

\* C21 witness: the timer of the begin call fired while the body of the
\* response was being read, and the ceremony ended.
C21_Witness ==
    /\ pc[1] = "BEGIN_FAILED"
    /\ calls[1].begin.timer = "fired"
    /\ resp[1].begin.arrived

\* this step is a call of the storage function op made outside a ceremony
\* (the ceremony does not move), and storeCall' is its outcome
StorageStep(op) ==
    /\ storeCall'.op = op
    /\ UNCHANGED << pc, resp, calls >>
    /\ storeCall' # storeCall \/ lastEmailStore' # lastEmailStore

\* C22 as stated: saveLastEmail(e) leaves e stored, clearLastEmail leaves
\* nothing stored, and getLastEmail returns what is stored, at any moment
\* of a ceremony.
C22_Original ==
    [][/\ StorageStep("save") => lastEmailStore' = storeCall'.arg
       /\ StorageStep("clear") => lastEmailStore' = Null
       /\ StorageStep("get") =>
             /\ storeCall'.value = lastEmailStore
             /\ lastEmailStore' = lastEmailStore
      ]_vars

\* the storage call of the step went through: there is a window and
\* localStorage did not throw
StorageWorked == hasWindow /\ ~storeCall'.failed

\* C22 amended: ... when there is a window and the storage call does not
\* throw; otherwise saveLastEmail and clearLastEmail leave the entry as it
\* was and getLastEmail returns null.  The entry holds one value at most.
C22_SaveGetClear ==
    [][/\ StorageStep("save") =>
             lastEmailStore' =
                 IF StorageWorked THEN storeCall'.arg ELSE lastEmailStore
       /\ StorageStep("clear") =>
             lastEmailStore' = IF StorageWorked THEN Null ELSE lastEmailStore
       /\ StorageStep("get") =>
             /\ storeCall'.value =
                   IF StorageWorked THEN lastEmailStore ELSE Null
             /\ lastEmailStore' = lastEmailStore
      ]_vars

\* C22 witness: with no ceremony started, getLastEmail returned an e-mail
\* that was not stored at the start, so a saveLastEmail preceded it.
C22_Witness ==
    /\ pc[1] = "IDLE"
    /\ storeCall.op = "get" /\ ~storeCall.failed
    /\ storeCall.value = "b@example.com"
    /\ lastEmailStore = "b@example.com"

\* C22 witness of clearing: getLastEmail returned null after an e-mail had
\* been stored by a ceremony.
C22_WitnessCleared ==
    /\ pc[1] = "DONE" /\ storeFailures[1] = 0
    /\ storeCall.op = "get" /\ ~storeCall.failed
    /\ storeCall.value = Null

\* the ceremony step of c writes LastUsedIdentifier
WritesStore(c) ==
    \/ storeWrites'[c] # storeWrites[c]
    \/ /\ pc'[c] # pc[c]
       /\ lastEmailStore' # lastEmailStore

\* C23: a ceremony writes LastUsedIdentifier only in the step that completes
\* it, after its finish call has answered 2xx with a success envelope; every
\* other step of a ceremony leaves LastUsedIdentifier as it was, so a
\* ceremony that ended UNSUPPORTED or in a failure state has written nothing.
C23_FailureLeavesStore ==
    [][\A c \in Cer :
         /\ WritesStore(c) =>
               /\ pc[c] = "FINISH_BODY" /\ pc'[c] = "DONE"
               /\ resp[c].finish.ok
               /\ resp'[c].finish.body.parsed
               /\ resp'[c].finish.body.success
               /\ result'[c].success
         /\ pc'[c] \in FailedStates \cup {"UNSUPPORTED"} =>
               /\ lastEmailStore' = lastEmailStore
               /\ storeWrites'[c] = 0
      ]_vars

\* C23 witness: the finish call was refused by the server while an earlier
\* identifier was stored, and the ceremony wrote nothing.
C23_Witness ==
    /\ pc[1] = "FINISH_FAILED"
    /\ resp[1].finish.ok /\ resp[1].finish.body.parsed
    /\ ~resp[1].finish.body.success
    /\ lastEmailStore = "old@example.com" /\ email[1] # "old@example.com"
    /\ storeWrites[1] = 0

\* the call answered 2xx with an envelope {success: true} without data
SuccessWithoutData(r) ==
    /\ r.arrived /\ r.ok
    /\ r.body.parsed /\ r.body.success /\ r.body.data = "none"

\* C24: a begin call answered 2xx with success:true and no data fails as a
\* refused call does (error text of the envelope or the fallback, no platform
\* call, no finish request); a finish call answered 2xx with success:true
\* and no data completes the ceremony with neither token nor user.
C24_SuccessWithoutData ==
    \A c \in Cer :
        /\ SuccessWithoutData(resp[c].begin) =>
              /\ pc[c] = "BEGIN_FAILED"
              /\ result[c] =
                    Failure(AppFailureMessage(resp[c].begin.body,
                                              BeginFallback(kind[c])))
              /\ platformCalls[c] = 0
              /\ ~resp[c].finish.arrived
              /\ RequestsTo(c, {FinishEndpoint(kind[c])}) = {}
        /\ SuccessWithoutData(resp[c].finish) =>
              /\ pc[c] = "DONE"
              /\ result[c] = Success(Undefined, Undefined)

\* C24 witness: a login's begin call was answered {success: true} without
\* data and the ceremony failed with the fallback text.
C24_Witness ==
    /\ kind[1] = "login" /\ pc[1] = "BEGIN_FAILED"
    /\ SuccessWithoutData(resp[1].begin)
    /\ resp[1].begin.body.error = Undefined
    /\ result[1] = Failure(BeginFallback("login"))

\* C24 witness of the finish call: a login completed on {success: true}
\* without data.
C24_WitnessFinish ==
    /\ kind[1] = "login" /\ pc[1] = "DONE"
    /\ SuccessWithoutData(resp[1].finish)
    /\ result[1] = Success(Undefined, Undefined)

\* the states of ceremony c in which its call is in flight
CallInFlight(call) ==
    IF call = "begin" THEN {"BEGIN_REQUESTED", "BEGIN_BODY"}
    ELSE {"FINISH_REQUESTED", "FINISH_BODY"}

\* the timer of the call of ceremony c fires in this step
Fires(c, call) ==
    calls[c][call].timer # "fired" /\ calls'[c][call].timer = "fired"

\* C25 (state part): a timer is armed only while its own call is in flight,
\* so every way out of a call has cancelled or consumed the timer.
C25_TimerCancelledOnExit ==
    \A c \in Cer : \A call \in CallNames :
        calls[c][call].timer = "armed" => pc[c] \in CallInFlight(call)

\* C25: each call has its own timer and signal.  The timer is armed only
\* while its call is in flight; it fires only on an armed timer of a call in
\* flight, aborts that call alone and ends it in the call's failure state;
\* the other call of the ceremony and every call of another ceremony keep
\* their timer, their signal, their position and their result.
C25_OwnTimerAndSignal ==
    [][\A c \in Cer : \A call \in CallNames :
         /\ calls'[c][call].timer = "armed" => pc'[c] \in CallInFlight(call)
         /\ calls'[c][call].aborted => calls'[c][call].timer = "fired"
         /\ Fires(c, call) =>
               /\ calls[c][call].timer = "armed"
               /\ pc[c] \in CallInFlight(call)
               /\ pc'[c] = FailedStateOf(call)
               /\ \A call2 \in CallNames \ {call} :
                     calls'[c][call2] = calls[c][call2]
               /\ \A d \in Cer \ {c} :
                     /\ calls'[d] = calls[d]
                     /\ pc'[d] = pc[d]
                     /\ thrown'[d] = thrown[d]
                     /\ result'[d] = result[d]
      ]_vars

\* C25 witness: the begin timer of ceremony 1 fired while the begin call of
\* ceremony 2, started before, is still in flight with its timer armed and
\* its signal not aborted.
C25_Witness ==
    /\ pc[1] = "BEGIN_FAILED" /\ calls[1].begin.timer = "fired"
    /\ calls[1].begin.aborted
    /\ pc[2] \in CallInFlight("begin")
    /\ calls[2].begin.timer = "armed" /\ ~calls[2].begin.aborted

\* C25 witness, later in the same ceremony: the begin call completed and
\* cleared its timer, then the finish timer fired.
C25_WitnessSameCeremony ==
    /\ pc[1] = "FINISH_FAILED"
    /\ calls[1].begin.timer = "cleared" /\ ~calls[1].begin.aborted
    /\ calls[1].finish.timer = "fired" /\ calls[1].finish.aborted

\* ceremony c completes in this step: its finish call has succeeded
Completes(c) == pc[c] # "DONE" /\ pc'[c] = "DONE"

\* the write of the completing step threw inside saveLastEmail
WriteThrew(c) == storeFailures'[c] # storeFailures[c]

\* the values LastUsedIdentifier can hold before any ceremony has written
InitialIdentifiers == {Null, "old@example.com"}

\* C26 as stated: with ceremonies interleaved, a step that completes a
\* ceremony leaves its e-mail in LastUsedIdentifier and no other step
\* changes it, so the value is the initial one or the e-mail of the ceremony
\* that completed last; a failed ceremony has written nothing.
C26_Original ==
    [][/\ \A c \in Cer : Completes(c) => lastEmailStore' = email[c]
       /\ (\A c \in Cer : ~Completes(c)) => lastEmailStore' = lastEmailStore
       /\ lastEmailStore' \in
             InitialIdentifiers \cup {email[c] : c \in {d \in Cer : pc'[d] = "DONE"}}
       /\ \A c \in Cer : pc'[c] \in FailedStates \cup {"UNSUPPORTED"} =>
                              storeWrites'[c] = 0
      ]_vars

\* C26 amended: ... the value is the initial one or the e-mail of the
\* ceremony that completed last among those whose storage write did not
\* throw; a completing step whose write threw leaves the value as it was.
C26_LastSuccessfulWrite ==
    [][/\ \A c \in Cer : Completes(c) =>
             lastEmailStore' =
                 IF WriteThrew(c) THEN lastEmailStore ELSE email[c]
       /\ (\A c \in Cer : ~Completes(c)) => lastEmailStore' = lastEmailStore
       /\ lastEmailStore' \in
             InitialIdentifiers \cup
             {email[c] : c \in {d \in Cer : pc'[d] = "DONE" /\
                                             storeFailures'[d] = 0}}
       /\ \A c \in Cer : pc'[c] \in FailedStates \cup {"UNSUPPORTED"} =>
                              storeWrites'[c] = 0
      ]_vars

\* C26 witness: two interleaved ceremonies with different e-mails both
\* completed and wrote; the value is the e-mail of one of them.
C26_Witness ==
    /\ pc[1] = "DONE" /\ pc[2] = "DONE"
    /\ email[1] # email[2]
    /\ storeFailures[1] = 0 /\ storeFailures[2] = 0
    /\ lastEmailStore = email[1]

\* C26 witness with a failed ceremony: ceremony 2 failed after ceremony 1
\* completed, and the value is still the e-mail of ceremony 1.
C26_WitnessFailedLater ==
    /\ pc[1] = "DONE" /\ storeFailures[1] = 0
    /\ pc[2] = "FINISH_FAILED" /\ email[2] # email[1]
    /\ lastEmailStore = email[1]

\* the hook's register or authenticate is called in this step
HookCallStep(c) == hookCall[c].phase = "idle" /\ hookCall'[c].phase # "idle"

\* the call of the step returned {success: false, error} and started nothing:
\* no request was sent, no timer armed, no platform call made
HookStartsNothing(c) ==
    /\ hookCall'[c].phase = "returned" /\ ~hookCall'[c].ran
    /\ hookCall'[c].result.returned /\ ~hookCall'[c].result.success
    /\ Truthy(hookCall'[c].result.error)
    /\ UNCHANGED cerVars

\* the call of the step started the ceremony of kind k with e-mail e
HookStarts(c, k, e) ==
    /\ hookCall'[c].phase = "awaiting"
    /\ pc[c] = "IDLE" /\ pc'[c] # "IDLE"
    /\ kind'[c] = k /\ email'[c] = e

\* C27: register starts nothing and returns a failure when its e-mail or
\* username is empty or isAvailable is false, and starts the registration
\* otherwise; authenticate starts nothing and returns a failure when neither
\* options.email nor lastEmail is set or isAvailable is false, and otherwise
\* starts the login with options.email when it is given, else with lastEmail.
C27_HookPreconditions ==
    [][\A c \in Cer : HookCallStep(c) =>
         LET h == hookCall'[c]
         IN /\ h.op = "register" =>
                  IF ~Truthy(h.email) \/ ~Truthy(h.username) \/ ~isAvailable
                  THEN HookStartsNothing(c)
                  ELSE /\ HookStarts(c, "register", h.email)
                       /\ username'[c] = h.username
            /\ h.op = "authenticate" =>
                  IF \/ ~Truthy(h.email) /\ ~Truthy(lastEmail)
                     \/ ~isAvailable
                  THEN HookStartsNothing(c)
                  ELSE HookStarts(c, "login",
                                  IF Truthy(h.email) THEN h.email
                                  ELSE lastEmail)
      ]_vars

\* C27 witness: with the authenticator available, authenticate was called
\* without an e-mail option while no lastEmail was known; it returned the
\* failure and nothing was started.
C27_Witness ==
    /\ check = "done" /\ isAvailable /\ lastEmail = Null
    /\ hookCall[1].op = "authenticate" /\ hookCall[1].email = Undefined
    /\ hookCall[1].phase = "returned" /\ ~hookCall[1].ran
    /\ hookCall[1].result = Failure(MsgHookNoEmail)
    /\ pc[1] = "IDLE" /\ reqs[1] = << >> /\ platformCalls[1] = 0

\* C27 witness of the preference: authenticate was called with an e-mail
\* option while another lastEmail was known, and the login runs with the
\* option's e-mail.
C27_WitnessOptionPreferred ==
    /\ hookCall[1].op = "authenticate" /\ hookCall[1].phase = "awaiting"
    /\ hookCall[1].email = "b@example.com"
    /\ lastEmail = "old@example.com"
    /\ kind[1] = "login" /\ email[1] = "b@example.com"
    /\ pc[1] = "BEGIN_REQUESTED"

\* C27 witness of register: the authenticator is not available and register
\* returned the failure without starting the registration.
C27_WitnessRegisterUnavailable ==
    /\ check = "done" /\ ~isAvailable
    /\ hookCall[1].op = "register"
    /\ Truthy(hookCall[1].email) /\ Truthy(hookCall[1].username)
    /\ hookCall[1].result = Failure(MsgHookUnavailable)
    /\ pc[1] = "IDLE" /\ reqs[1] = << >>

\* the startup check ends in this step
CheckEnds == check # "done" /\ check' = "done"

\* the hook's register returns success in this step
RegisterSucceeds(c) ==
    /\ hookCall[c].phase = "awaiting" /\ hookCall'[c].phase = "returned"
    /\ hookCall'[c].op = "register"
    /\ hookCall'[c].result.success

\* C28: once the startup check has ended isLoading is false, whichever way
\* it ended; when it ends, isEnrolled is true only if the platform
\* authenticator is available and a non-empty last-used e-mail is stored
\* (which is then lastEmail); when the hook's register returns success,
\* isEnrolled is true and lastEmail is the e-mail register was called with.
C28_StartupCheckAndRegister ==
    [][/\ check' = "done" => ~isLoading'
       /\ CheckEnds =>
             /\ ~isWebAuthnSupported => ~isAvailable' /\ ~isEnrolled'
             /\ isEnrolled' =>
                   /\ isAvailable'
                   /\ Truthy(lastEmailStore)
                   /\ lastEmail' = lastEmailStore
       /\ \A c \in Cer : RegisterSucceeds(c) =>
             /\ isEnrolled'
             /\ lastEmail' = hookCall'[c].email
             /\ lastEmail' = email[c]
      ]_vars

\* C28 witness: the check ended with the authenticator available and a
\* stored e-mail, before any call of register or authenticate.
C28_Witness ==
    /\ check = "done" /\ ~isLoading
    /\ isAvailable /\ isEnrolled
    /\ lastEmail = "old@example.com" /\ lastEmailStore = "old@example.com"
    /\ hookCall[1].phase = "idle"

\* C28 witness of the other ways the check ends: unsupported, and supported
\* with no platform authenticator while an e-mail is stored.
C28_WitnessUnsupported ==
    /\ check = "done" /\ ~isLoading
    /\ ~isWebAuthnSupported /\ ~isAvailable /\ ~isEnrolled

C28_WitnessUnavailable ==
    /\ check = "done" /\ ~isLoading
    /\ isWebAuthnSupported /\ ~isAvailable /\ ~isEnrolled
    /\ lastEmailStore = "old@example.com" /\ lastEmail = Null

\* C28 witness of register: nothing was stored when the check ended, then
\* register succeeded through the hook.
C28_WitnessRegistered ==
    /\ check = "done"
    /\ hookCall[1].op = "register" /\ hookCall[1].phase = "returned"
    /\ hookCall[1].result.success
    /\ isEnrolled /\ lastEmail = "a@example.com"
    /\ hookCall[1].email = "a@example.com"

====
